---- MODULE Spec2Model ----
(***************************************************************************)
(* A model of hujh08/galfit: the typed record layer (SlotsDict, Header,    *)
(* Model), the Parameter objects the records hold, the model               *)
(* transformation graph (Model.mod_trans_to and the to_* methods), the     *)
(* constraint rules (ConsRule, Constraints) and the GalFit document with   *)
(* its text form (load_file, __str__, dup_comp).                           *)
(*                                                                         *)
(* Python objects that are mutable and shared by reference (Parameter)     *)
(* live in `heap`, a sequence indexed by object identity; a record stores  *)
(* the identity.  Python floats are modelled as exact rationals <<n, d>>.  *)
(* A raised exception is the `err` field of an operation's outcome, with   *)
(* the heap and record as they were at the point of the raise.             *)
(*                                                                         *)
(* A method is one operator named as in the source; where a method goes on *)
(* with the outcome of a call, the rest of its body is the operator named  *)
(* <method>_<step>, which takes that outcome as an argument.               *)
(***************************************************************************)
EXTENDS Integers, Sequences, FiniteSets, TLC

VARIABLES classes,  \* the class attributes init_class computes, by class
          heap,     \* Seq of Parameter objects; the index is the identity
          cur,      \* the object the next call acts on: a record, a
                    \* Parameter, a Constraints collection or a document
          orig,     \* what the run started from: the record with its
                    \* heap, or the file on disk
          other,    \* a second object: the source of the last transform,
                    \* the record on the other side of a copy, the operand
                    \* of an in-place operation, a rule read back, or the
                    \* texts written so far
          call,     \* the calls made so far; the outcome of the last one
                    \* and the object and heap it started from
          graph,    \* declared direct transforms: set of <<from, to>>
          bfs       \* a path search that was asked for, and what it found

vars == <<classes, heap, cur, orig, other, call, graph, bfs>>

(***************************************************************************)
(* Rationals: Python floats taken as exact.                                *)
(***************************************************************************)
Abs(n) == IF n < 0 THEN -n ELSE n

RECURSIVE GCD(_, _)
GCD(a, b) == IF b = 0 THEN a ELSE GCD(b, a % b)

\* normal form: positive denominator, lowest terms
QNorm(n, d, g) == IF d < 0 THEN <<(-n) \div g, (-d) \div g>>
                  ELSE <<n \div g, d \div g>>

Q(n, d) == QNorm(n, d, GCD(Abs(n), Abs(d)))

QMul(a, b) == Q(a[1] * b[1], a[2] * b[2])
QAdd(a, b) == Q(a[1] * b[2] + b[1] * a[2], a[2] * b[2])
QDiv(a, b) == Q(a[1] * b[2], a[2] * b[1])
QInt(n) == <<n, 1>>

\* the absent value of Python: None, or an attribute that was never set
None == <<>>

(***************************************************************************)
(* Python values handed to the API.                                        *)
(***************************************************************************)
PInt(n)   == [t |-> "int", n |-> n]
PFloat(q) == [t |-> "float", q |-> q]
PStr(s)   == [t |-> "str", s |-> s]
PTup(xs)  == [t |-> "tup", xs |-> xs]       \* list or tuple
PPar(ref) == [t |-> "par", ref |-> ref]     \* a Parameter object
PNone     == [t |-> "none"]

\* strings read from the text of a file: PLit is one token that spells the
\* number q, in fixed ("f"), exponent ("e") or integer ("i") notation; PTxt
\* is a string of several whitespace-separated tokens
PLit(q, f) == [t |-> "lit", q |-> q, f |-> f]
PTxt(toks) == [t |-> "txt", toks |-> toks]

is_str_type(v) == v.t \in {"str", "lit", "txt"}
is_int_type(v) == v.t = "int"
is_vec_type(v) == v.t = "tup"

\* str.split() on the strings the model uses
Split(s) ==
    CASE s = ""          -> <<>>
      [] s = "3 1"       -> <<"3", "1">>
      [] s = "2 free"    -> <<"2", "free">>
      [] s = "4 0 0.5"   -> <<"4", "0", "0.5">>
      [] s = "10 20 1 0" -> <<"10", "20", "1", "0">>
      [] s = "1 2 x 0"   -> <<"1", "2", "x", "0">>
      [] s = "2 x"       -> <<"2", "x">>
      [] s = "1 2 3 4 5" -> <<"1", "2", "3", "4", "5">>
      [] s = "1 10 1 10" -> <<"1", "10", "1", "10">>
      [] s = "5 5"       -> <<"5", "5">>
      [] s = "0.00099996 1" -> <<"0.00099996", "1">>
      [] OTHER           -> <<s>>

\* the tokens as Python strings
Tokens(toks) == [i \in 1..Len(toks) |-> [t |-> "str", s |-> toks[i]]]

\* v.split() of a string v of either kind
SplitTokens(v) ==
    CASE v.t = "txt" -> v.toks
      [] v.t = "lit" -> <<v>>
      [] OTHER       -> Tokens(Split(v.s))

\* float(s) on the tokens the model uses; any other string raises
ParseFloat(s) ==
    CASE s = "0"   -> [err |-> "", q |-> <<0, 1>>]
      [] s = "1"   -> [err |-> "", q |-> <<1, 1>>]
      [] s = "2"   -> [err |-> "", q |-> <<2, 1>>]
      [] s = "3"   -> [err |-> "", q |-> <<3, 1>>]
      [] s = "4"   -> [err |-> "", q |-> <<4, 1>>]
      [] s = "5"   -> [err |-> "", q |-> <<5, 1>>]
      [] s = "10"  -> [err |-> "", q |-> <<10, 1>>]
      [] s = "20"  -> [err |-> "", q |-> <<20, 1>>]
      [] s = "-1"  -> [err |-> "", q |-> <<-1, 1>>]
      [] s = "0.5" -> [err |-> "", q |-> <<1, 2>>]
      [] s = "0.00099996" -> [err |-> "", q |-> Q(99996, 100000000)]
      [] OTHER     -> [err |-> "ValueError", q |-> <<>>]

\* int(s): as float(s) but a fractional literal raises too
ParseInt_of(f) ==
    IF f.err = "" /\ f.q[2] = 1 THEN [err |-> "", n |-> f.q[1]]
    ELSE [err |-> "ValueError", n |-> 0]

ParseInt(s) == ParseInt_of(ParseFloat(s))

\* int(v) of a string read from text: only integer notation is taken
LitInt(v) ==
    IF v.t = "lit" /\ v.f = "i" THEN [err |-> "", n |-> v.q[1]]
    ELSE [err |-> "ValueError", n |-> 0]

\* float(v)
ToFloat(v) ==
    CASE v.t = "int"   -> [err |-> "", q |-> <<v.n, 1>>]
      [] v.t = "float" -> [err |-> "", q |-> v.q]
      [] v.t = "str"   -> ParseFloat(v.s)
      [] v.t = "lit"   -> [err |-> "", q |-> v.q]
      [] v.t = "txt"   -> [err |-> "ValueError", q |-> <<>>]
      [] OTHER         -> [err |-> "TypeError", q |-> <<>>]

(***************************************************************************)
(* Parameter (src/parameter.py).  A heap cell is [val, state, uncert];     *)
(* val is None while the attribute has not been set.                       *)
(***************************************************************************)
FREE == 1
FREEZE == 0

map_vals(s) ==
    CASE s = "free"   -> [in |-> TRUE, n |-> FREE]
      [] s = "freeze" -> [in |-> TRUE, n |-> FREEZE]
      [] OTHER        -> [in |-> FALSE, n |-> 0]

\* outcome of an operation on the heap alone
HR(h, e) == [heap |-> h, err |-> e]

set_val_store(h, ref, f) ==
    IF f.err # "" THEN [heap |-> h, err |-> f.err]
    ELSE [heap |-> [h EXCEPT ![ref].val = f.q], err |-> ""]

set_val(h, ref, v) == set_val_store(h, ref, ToFloat(v))

\* the integer set_state stores for a string: a name of map_vals, or int(v)
set_state_str(m, s) ==
    IF m.in THEN [err |-> "", n |-> m.n] ELSE ParseInt(s)

\* the integer set_state stores for input v: any int is taken as it is
set_state_int(v) ==
    IF ~(is_int_type(v) \/ is_str_type(v))
    THEN [err |-> "AssertionError", n |-> 0]
    ELSE IF v.t \in {"lit", "txt"} THEN LitInt(v)
    ELSE IF is_str_type(v) THEN set_state_str(map_vals(v.s), v.s)
         ELSE [err |-> "", n |-> v.n]

set_state_store(h, ref, r) ==
    IF r.err # "" THEN [heap |-> h, err |-> r.err]
    ELSE [heap |-> [h EXCEPT ![ref].state = r.n], err |-> ""]

set_state(h, ref, v) == set_state_store(h, ref, set_state_int(v))

set_uncert_store(h, ref, f) ==
    IF f.err # "" THEN [heap |-> h, err |-> f.err]
    ELSE [heap |-> [h EXCEPT ![ref].uncert = f.q], err |-> ""]

set_uncert(h, ref, v) ==
    IF v.t = "none" THEN [heap |-> [h EXCEPT ![ref].uncert = <<>>], err |-> ""]
    ELSE set_uncert_store(h, ref, ToFloat(v))

is_frozen(p) == p.state = FREEZE
is_free(p) == ~is_frozen(p)

\* Parameter.update(*args): the positional arguments as finally assigned
\* to val, state, uncert (at most three), or the error raised on the way
RECURSIVE update_args(_, _)

\* args=v.split(): update(*args) unless there is exactly one token
update_args_str(h, toks) ==
    IF Len(toks) # 1 THEN update_args(h, Tokens(toks))
    ELSE [err |-> "", args |-> Tokens(toks)]

\* update(v.val, v.state, v.uncert) of the Parameter v = p
update_args_par(h, p) ==
    IF p.val = None THEN [err |-> "AttributeError", args |-> <<>>]
    ELSE update_args(h, <<PFloat(p.val), PInt(p.state),
                          IF p.uncert = None THEN PNone ELSE PFloat(p.uncert)>>)

update_args(h, args) ==
    IF Len(args) = 1
    THEN CASE args[1].t = "txt"    -> update_args(h, args[1].toks)
           [] args[1].t = "lit"    -> [err |-> "", args |-> args]
           [] is_str_type(args[1]) -> update_args_str(h, Split(args[1].s))
           [] args[1].t = "par"    -> update_args_par(h, h[args[1].ref])
           [] is_vec_type(args[1]) -> update_args(h, args[1].xs)
           [] OTHER                -> [err |-> "", args |-> args]
    ELSE IF Len(args) > 3 THEN [err |-> "Exception", args |-> <<>>]
         ELSE [err |-> "", args |-> args]

\* setattr of val, state, uncert in this order from the i-th argument on;
\* the first failure stops it and leaves the earlier fields assigned
RECURSIVE update_setattr(_, _, _, _)

update_setattr_next(r, ref, i, args) ==
    IF r.err # "" THEN r ELSE update_setattr(r.heap, ref, i + 1, args)

update_setattr(h, ref, i, args) ==
    IF i > Len(args) THEN [heap |-> h, err |-> ""]
    ELSE update_setattr_next(
            CASE i = 1 -> set_val(h, ref, args[1])
              [] i = 2 -> set_state(h, ref, args[2])
              [] i = 3 -> set_uncert(h, ref, args[3]),
            ref, i, args)

update_assign(h, ref, a) ==
    IF a.err # "" THEN [heap |-> h, err |-> a.err]
    ELSE update_setattr(h, ref, 1, a.args)

update(h, ref, args) == update_assign(h, ref, update_args(h, args))

\* Parameter(arg): a new object, state 0 and no uncertainty, then update.
\* The outcome names the new identity; a failed construction leaves no object.
NewParameter_made(h, r) ==
    IF r.err # "" THEN [heap |-> h, err |-> r.err, ref |-> 0]
    ELSE [heap |-> r.heap, err |-> "", ref |-> Len(h) + 1]

NewParameter(h, arg) ==
    NewParameter_made(h, update(Append(h, [val |-> <<>>, state |-> 0,
                                           uncert |-> <<>>]),
                                Len(h) + 1, <<arg>>))

state_of_comb_pars(p0, p1) == IF p0.state + p1.state # 0 THEN 1 ELSE 0

\* p *= number: only val changes, the object stays the same
imul(h, ref, q) == [h EXCEPT ![ref].val = QMul(h[ref].val, q)]

\* Parameter(*args): set_state(), set_uncert(), assert args, update(*args)
NewParameter_args(h, args) ==
    IF args = <<>> THEN [heap |-> h, err |-> "AssertionError", ref |-> 0]
    ELSE NewParameter_made(h, update(Append(h, [val |-> <<>>, state |-> 0,
                                                uncert |-> <<>>]),
                                     Len(h) + 1, args))

\* free(), freeze()
free(h, ref) == set_state(h, ref, PInt(FREE))
freeze(h, ref) == set_state(h, ref, PInt(FREEZE))

\* setattr(p, prop, val)
Parameter_setattr(h, ref, prop, val) ==
    CASE prop = "val"    -> set_val(h, ref, val)
      [] prop = "state"  -> set_state(h, ref, val)
      [] prop = "uncert" -> set_uncert(h, ref, val)
      [] OTHER           -> HR(h, "Exception")

is_number_type(v) == v.t \in {"int", "float"}

\* _gen_inplace_op(v, f) of __iadd__ (f = "add") and __imul__ (f = "mul")
RECURSIVE gen_inplace_op(_, _, _, _)

\* self.set_val(f(self.val, v)) for the number q
gen_inplace_op_num(h, ref, q, f) ==
    IF h[ref].val = None THEN HR(h, "AttributeError")
    ELSE HR([h EXCEPT ![ref].val = IF f = "mul" THEN QMul(h[ref].val, q)
                                   ELSE QAdd(h[ref].val, q)], "")

\* v=v.val of the operand Parameter p
gen_inplace_op_par(h, ref, p, f) ==
    IF p.val = None THEN HR(h, "AttributeError")
    ELSE gen_inplace_op_num(h, ref, p.val, f)

\* return self.__iadd__(type(self)(v)): the string goes through __iadd__
\* whichever operator was called
gen_inplace_op_str(h, ref, n) ==
    IF n.err # "" THEN HR(h, n.err)
    ELSE gen_inplace_op(n.heap, ref, PPar(n.ref), "add")

gen_inplace_op(h, ref, v, f) ==
    IF ~(is_number_type(v) \/ is_str_type(v) \/ v.t = "par")
    THEN HR(h, "AssertionError")
    ELSE IF is_str_type(v) THEN gen_inplace_op_str(h, ref, NewParameter(h, v))
    ELSE IF v.t = "par" THEN gen_inplace_op_par(h, ref, h[v.ref], f)
    ELSE gen_inplace_op_num(h, ref, ToFloat(v).q, f)

iadd(h, ref, v) == gen_inplace_op(h, ref, v, "add")
imul_op(h, ref, v) == gen_inplace_op(h, ref, v, "mul")

(***************************************************************************)
(* Class setup of the records, as MetaSlotsDict / init_class /             *)
(* Model.copy_to_subclass leave it once the classes are defined.           *)
(***************************************************************************)
\* Model.__subclasses__() in definition order: the model registry
Mods == <<"sersic", "sky", "expdisk", "edgedisk", "devauc", "psf",
          "nuker", "moffat", "ferrer", "gaussian", "king">>

ModNames == {Mods[i] : i \in 1..Len(Mods)}

Classes == ModNames \cup {"header"}

keys_sorted(c) ==
    CASE c = "sersic"   -> <<"0", "1", "2", "3", "4", "5", "9", "10", "Z">>
      [] c = "sky"      -> <<"0", "1", "2", "3", "Z">>
      [] c = "expdisk"  -> <<"0", "1", "2", "3", "4", "9", "10", "Z">>
      [] c = "edgedisk" -> <<"0", "1", "2", "3", "4", "5", "10", "Z">>
      [] c = "devauc"   -> <<"0", "1", "2", "3", "4", "9", "10", "Z">>
      [] c = "psf"      -> <<"0", "1", "2", "3", "Z">>
      [] c = "nuker"    -> <<"0", "1", "2", "3", "4", "5", "6", "7", "9",
                             "10", "Z">>
      [] c = "moffat"   -> <<"0", "1", "2", "3", "4", "5", "9", "10", "Z">>
      [] c = "ferrer"   -> <<"0", "1", "2", "3", "4", "5", "6", "9", "10",
                             "Z">>
      [] c = "gaussian" -> <<"0", "1", "2", "3", "4", "9", "10", "Z">>
      [] c = "king"     -> <<"0", "1", "2", "3", "4", "5", "6", "9", "10",
                             "Z">>
      [] c = "header"   -> <<"A", "B", "C", "D", "E", "F", "G", "H", "I",
                             "J", "K", "O", "P">>

keys_valid(c) == {keys_sorted(c)[i] : i \in 1..Len(keys_sorted(c))}

\* Model.keys_alias as <<alias, key>> pairs
ModelAlias ==
    {<<"name", "0">>, <<"modname", "0">>, <<"x0", "1">>, <<"y0", "2">>,
     <<"mag", "3">>, <<"re", "4">>, <<"n", "5">>, <<"ba", "9">>,
     <<"pa", "10">>, <<"skip", "Z">>}

\* the keys_alias a class body declares itself
keys_alias(c) ==
    CASE c = "sky"      -> {<<"bkg", "1">>, <<"dbdx", "2">>, <<"dbdy", "3">>}
      [] c = "expdisk"  -> {<<"rs", "4">>}
      [] c = "edgedisk" -> {<<"mu", "3">>, <<"sb", "3">>, <<"hs", "4">>,
                            <<"dh", "4">>, <<"rs", "5">>, <<"dl", "5">>}
      [] c = "nuker"    -> {<<"ub", "3">>, <<"rb", "4">>, <<"alpha", "5">>,
                            <<"beta", "6">>, <<"gamma", "7">>}
      [] c = "moffat"   -> {<<"fwhm", "4">>, <<"pl", "5">>}
      [] c = "ferrer"   -> {<<"mu", "3">>, <<"sb", "3">>, <<"tr", "4">>,
                            <<"alpha", "5">>, <<"beta", "6">>}
      [] c = "gaussian" -> {<<"fwhm", "4">>}
      [] c = "king"     -> {<<"mu", "3">>, <<"sb", "3">>, <<"rc", "4">>,
                            <<"rt", "5">>, <<"alpha", "6">>}
      [] c = "header"   ->
            {<<"input", "A">>, <<"output", "B">>, <<"sigma", "C">>,
             <<"psf", "D">>, <<"psfFactor", "E">>, <<"mask", "F">>,
             <<"constraints", "G">>, <<"cons", "G">>, <<"region", "H">>,
             <<"fitregion", "H">>, <<"xyminmax", "H">>, <<"conv", "I">>,
             <<"zerop", "J">>, <<"pscale", "K">>, <<"psize", "K">>,
             <<"disp", "O">>, <<"mod", "P">>}
      [] OTHER -> {}

\* classes whose body declares keys_alias; the others inherit Model's map
DeclaresAlias(c) ==
    c \in {"sky", "expdisk", "edgedisk", "nuker", "moffat", "ferrer",
           "gaussian", "king", "header"}

\* copy_to_subclass: a declared keys_alias is completed, for the keys of
\* the class it does not mention, from the parent's
copy_to_subclass(c) ==
    IF c = "header" THEN keys_alias(c)
    ELSE keys_alias(c) \cup
         {p \in ModelAlias : /\ p[2] \in keys_valid(c)
                             /\ \A o \in keys_alias(c) : o[2] # p[2]}

\* inverse_alias of the class's keys_alias
map_keys_alias(c) ==
    LET pairs == IF DeclaresAlias(c) THEN copy_to_subclass(c) ELSE ModelAlias
    IN  [a \in {p[1] : p \in pairs} |->
            (CHOOSE p \in pairs : p[1] = a)[2]]

keys_optional(c) ==
    CASE c = "header" -> keys_valid(c) \ {"B", "H", "I"}
      [] c = "sky"    -> {"0", "1", "2", "3", "Z"}
      [] OTHER        -> {"0", "Z"}

\* the keys of Model.values_example that hold a Parameter
ExampleKeys == <<"1", "2", "3", "4", "5", "6", "7", "8", "9", "10">>

\* the kind of values_example[k], from which the normalizer of key k is
\* derived; "absent" for a key the class has no example of
values_example(c, k) ==
    IF c = "header"
    THEN CASE k \in {"A", "B", "C", "D", "F", "G", "O", "P"} -> "str"
           [] k = "E" -> "int"
           [] k = "H" -> "int4"
           [] k = "I" -> "int2"
           [] k = "J" -> "float"
           [] k = "K" -> "float2"
           [] OTHER   -> "absent"
    ELSE CASE k = "0" -> "str"
           [] k = "Z" -> "int"
           [] k \in {ExampleKeys[i] : i \in 1..Len(ExampleKeys)} -> "Parameter"
           [] OTHER   -> "absent"

\* Model.values_example holds one Parameter(0) per key '1'..'10'; these
\* class-level objects are the first cells of the heap
ExampleRef(k) == CHOOSE i \in 1..Len(ExampleKeys) : ExampleKeys[i] = k

ExampleHeap ==
    [i \in 1..Len(ExampleKeys) |->
        [val |-> QInt(0), state |-> FREEZE, uncert |-> None]]

values_default(c, k) ==
    IF c = "header"
    THEN CASE k \in {"A", "B", "C", "D", "F", "G"} -> PStr("none")
           [] k = "E" -> PInt(1)
           [] k = "H" -> PTup(<<PInt(0), PInt(0), PInt(0), PInt(0)>>)
           [] k = "I" -> PTup(<<PInt(0), PInt(0)>>)
           [] k = "J" -> PFloat(QInt(20))
           [] k = "K" -> PTup(<<PFloat(QInt(1)), PFloat(QInt(1))>>)
           [] k = "O" -> PStr("regular")
           [] k = "P" -> PStr("0")
    ELSE CASE k = "0" -> PStr(c)
           [] k = "Z" -> PInt(0)
           [] OTHER   -> PPar(ExampleRef(k))

\* Header.mode_alias inverted: map_values_alias['P']
mode_alias(s) ==
    CASE s \in {"optimize", "opt", "o"}   -> "0"
      [] s \in {"model", "mod", "m"}      -> "1"
      [] s \in {"imgblock", "block", "b"} -> "2"
      [] s \in {"subcomps", "sub", "s"}   -> "3"
      [] OTHER -> ""

mode_valid == {"0", "1", "2", "3"}

disp_valid == {"regular", "curses", "both"}

\* keys with a restricted value set, and the set
values_valid(c, k) ==
    IF c = "header" /\ k = "O" THEN [in |-> TRUE, set |-> disp_valid]
    ELSE IF c = "header" /\ k = "P" THEN [in |-> TRUE, set |-> mode_valid]
    ELSE [in |-> FALSE, set |-> {}]

\* hasattr(example, '__iadd__') or hasattr(example, '__imul__'): true of a
\* Parameter and of a list, false of str, int and float
is_mutable_val(kind) == kind \in {"Parameter", "int4", "int2", "float2"}

\* the keys of values_example on class c: Header declares its own, a
\* model class declares none and reads Model's, whole, which
\* copy_to_subclass does not narrow to the keys of the class
keys_example(c) ==
    IF c = "header" THEN keys_valid(c)
    ELSE {"0", "Z"} \cup {ExampleKeys[i] : i \in 1..Len(ExampleKeys)}

\* what init_class and copy_to_subclass leave on class c
ClassAttrs(c) ==
    [keys_sorted    |-> keys_sorted(c),
     keys_valid     |-> keys_valid(c),
     map_keys_alias |-> map_keys_alias(c),
     keys_optional  |-> keys_optional(c),
     values_example |-> [k \in keys_example(c) |-> values_example(c, k)],
     values_default |-> [k \in keys_valid(c) |-> values_default(c, k)],
     values_valid   |-> [k \in keys_valid(c) |-> values_valid(c, k)]]

ClassTable == [c \in Classes |-> ClassAttrs(c)]

(***************************************************************************)
(* SlotsDict (src/collection.py).  A record is [cls, pars]; pars maps the  *)
(* keys that are set to their stored values.  An operation's outcome is    *)
(* [heap, rec, err, ret]: err is "" or the exception raised.               *)
(***************************************************************************)
OC(h, r, e, v) == [heap |-> h, rec |-> r, err |-> e, ret |-> v]

\* type(self)(): SlotsDict.__init__
NewRecord(c) == [cls |-> c, pars |-> <<>>]

get_std_key(c, prop) ==
    IF prop \in DOMAIN classes[c].map_keys_alias
    THEN classes[c].map_keys_alias[prop] ELSE prop

is_valid_key(c, key) == get_std_key(c, key) \in classes[c].keys_valid

is_opt_key(c, key) ==
    /\ is_valid_key(c, key)
    /\ get_std_key(c, key) \in classes[c].keys_optional

is_set_key(r, key) == get_std_key(r.cls, key) \in DOMAIN r.pars

\* every valid key has an entry of values_default
is_val_known_key(r, key) ==
    IF is_set_key(r, key) THEN TRUE
    ELSE IF ~is_opt_key(r.cls, key) THEN FALSE
    ELSE get_std_key(r.cls, key) \in DOMAIN classes[r.cls].values_default

\* a key without an example is not mutable; a model class has examples of
\* all the keys of Model, its own or not
is_mutable_prop_key(c, k) ==
    IF k \notin DOMAIN classes[c].values_example THEN FALSE
    ELSE is_mutable_val(classes[c].values_example[k])

is_mutable_prop(c, prop) == is_mutable_prop_key(c, get_std_key(c, prop))

func_str(v) ==
    IF is_str_type(v) THEN [err |-> "", val |-> v]
    ELSE [err |-> "AssertionError", val |-> PNone]

func_int_parsed(r) ==
    IF r.err # "" THEN [err |-> r.err, val |-> PNone]
    ELSE [err |-> "", val |-> PInt(r.n)]

func_int(v) ==
    IF ~(is_str_type(v) \/ is_int_type(v))
    THEN [err |-> "AssertionError", val |-> PNone]
    ELSE IF is_int_type(v) THEN [err |-> "", val |-> v]
    ELSE IF v.t \in {"lit", "txt"} THEN func_int_parsed(LitInt(v))
    ELSE func_int_parsed(ParseInt(v.s))

func_float_parsed(f) ==
    IF f.err # "" THEN [err |-> f.err, val |-> PNone]
    ELSE [err |-> "", val |-> PFloat(f.q)]

func_float(v) == func_float_parsed(ToFloat(v))

\* [fe(i) for i in val]: the first element to fail raises
func_vector_elems(es, bad) ==
    IF bad # {}
    THEN [err |-> es[CHOOSE i \in bad : \A j \in bad : i <= j].err,
          val |-> PNone]
    ELSE [err |-> "", val |-> PTup([i \in 1..Len(es) |-> es[i].val])]

func_vector_list(es) ==
    func_vector_elems(es, {i \in 1..Len(es) : es[i].err # ""})

func_vector_arg(arg, n, isint) ==
    IF ~is_vec_type(arg) THEN [err |-> "TypeError", val |-> PNone]
    ELSE IF Len(arg.xs) # n THEN [err |-> "AssertionError", val |-> PNone]
    ELSE func_vector_list([i \in 1..n |-> IF isint THEN func_int(arg.xs[i])
                                          ELSE func_float(arg.xs[i])])

\* combine_func_vector: a list of n elements, each through fe; a string is
\* split on whitespace first
func_vector(v, n, isint) ==
    func_vector_arg(IF is_str_type(v) THEN PTup(SplitTokens(v)) ELSE v,
                    n, isint)

values_funcs_type_pure(h, r) == [heap |-> h, err |-> r.err, val |-> r.val]

values_funcs_type_par(n) ==
    [heap |-> n.heap, err |-> n.err,
     val |-> IF n.err = "" THEN PPar(n.ref) ELSE PNone]

\* values_funcs_type[k](val), for a key whose example is of this kind:
\* [heap, err, val]
values_funcs_type(h, kind, v) ==
    CASE kind = "str"       -> values_funcs_type_pure(h, func_str(v))
      [] kind = "int"       -> values_funcs_type_pure(h, func_int(v))
      [] kind = "float"     -> values_funcs_type_pure(h, func_float(v))
      [] kind = "Parameter" -> values_funcs_type_par(NewParameter(h, v))
      [] kind = "absent"    -> [heap |-> h, err |-> "", val |-> v]
      [] OTHER ->
            values_funcs_type_pure(h,
                func_vector(v, IF kind = "int4" THEN 4 ELSE 2,
                            kind # "float2"))

StoreKey(r, k, v) == [r EXCEPT !.pars = (k :> v) @@ r.pars]

\* map_values_alias[prop][val] when there is one, else val
map_values_alias(c, k, val) ==
    IF c = "header" /\ k = "P" /\ is_str_type(val) /\ mode_alias(val.s) # ""
    THEN PStr(mode_alias(val.s)) ELSE val

\* SlotsDict_set_prop_store without the test against values_valid: the
\* set_prop that C8 tells the code's from
SlotsDict_set_prop_store_unchecked(h, r, k, n) ==
    IF n.err # "" THEN OC(h, r, n.err, PNone)
    ELSE OC(n.heap, StoreKey(r, k, n.val), "", PNone)

SlotsDict_set_prop_store(h, r, k, n) ==
    IF n.err # "" THEN OC(h, r, n.err, PNone)
    ELSE IF /\ classes[r.cls].values_valid[k].in
            /\ n.val.s \notin classes[r.cls].values_valid[k].set
         THEN OC(h, r, "Exception", PNone)
         ELSE OC(n.heap, StoreKey(r, k, n.val), "", PNone)

\* SlotsDict_set_prop_key without the test against keys_valid, an unknown
\* key being stored as it is given: the set_prop that C7 tells the code's from
SlotsDict_set_prop_key_unchecked(h, r, k, val) ==
    IF k \notin classes[r.cls].keys_valid
    THEN OC(h, StoreKey(r, k, val), "", PNone)
    ELSE IF r.cls = "header" /\ k = "P" /\ is_vec_type(val)
         THEN OC(h, r, "TypeError", PNone)
         ELSE SlotsDict_set_prop_store(h, r, k,
                  values_funcs_type(h, classes[r.cls].values_example[k],
                                    map_values_alias(r.cls, k, val)))

SlotsDict_set_prop_key(h, r, k, val) ==
    IF k \notin classes[r.cls].keys_valid THEN OC(h, r, "Exception", PNone)
    \* `val in map_vals` hashes val: a list cannot be hashed
    ELSE IF r.cls = "header" /\ k = "P" /\ is_vec_type(val)
         THEN OC(h, r, "TypeError", PNone)
         ELSE SlotsDict_set_prop_store(h, r, k,
                  values_funcs_type(h, classes[r.cls].values_example[k],
                                    map_values_alias(r.cls, k, val)))

SlotsDict_set_prop(h, r, prop, val) ==
    SlotsDict_set_prop_key(h, r, get_std_key(r.cls, prop), val)

\* get_default_val: [err, val]; the key must be optional, and have a
\* default
get_default_val(c, prop) ==
    IF ~is_opt_key(c, get_std_key(c, prop))
    THEN [err |-> "AssertionError", val |-> PNone]
    ELSE IF get_std_key(c, prop) \notin DOMAIN classes[c].values_default
         THEN [err |-> "AttributeError", val |-> PNone]
    ELSE [err |-> "", val |-> classes[c].values_default[get_std_key(c, prop)]]

\* SlotsDict.set_prop(self, key, d) for the default d that was fetched
touch_opt_key_default(h, r, key, d) ==
    IF d.err # "" THEN OC(h, r, d.err, PNone)
    ELSE SlotsDict_set_prop(h, r, key, d.val)

touch_opt_key(h, r, key) ==
    IF is_set_key(r, key) \/ ~is_opt_key(r.cls, key)
    THEN OC(h, r, "", PNone)
    ELSE touch_opt_key_default(h, r, key, get_default_val(r.cls, key))

\* return self.get_default_val(prop)
get_val_default(h, r, d) == OC(h, r, d.err, d.val)

get_val_touched(t, k) ==
    IF t.err # "" THEN t ELSE OC(t.heap, t.rec, "", t.rec.pars[k])

\* get_val_key giving the default of every unset optional key without
\* storing it: the get_val that C9 tells the code's from
get_val_key_untouched(h, r, k) ==
    IF k \notin classes[r.cls].keys_valid
    THEN OC(h, r, "AttributeError", PNone)
    ELSE IF k \in DOMAIN r.pars THEN OC(h, r, "", r.pars[k])
    ELSE IF k \in classes[r.cls].keys_optional
         THEN get_val_default(h, r, get_default_val(r.cls, k))
         ELSE OC(h, r, "AttributeError", PNone)

get_val_key(h, r, k) ==
    IF k \notin classes[r.cls].keys_valid
    THEN OC(h, r, "AttributeError", PNone)
    ELSE IF k \in DOMAIN r.pars THEN OC(h, r, "", r.pars[k])
    ELSE IF k \in classes[r.cls].keys_optional
         THEN IF is_mutable_prop(r.cls, k)
              THEN get_val_touched(touch_opt_key(h, r, k), k)
              ELSE get_val_default(h, r, get_default_val(r.cls, k))
         ELSE OC(h, r, "AttributeError", PNone)

get_val(h, r, prop) == get_val_key(h, r, get_std_key(r.cls, prop))

reset(r) == [r EXCEPT !.pars = <<>>]

(***************************************************************************)
(* Model (src/model.py): the records of the model types.                   *)
(***************************************************************************)
is_sky(c) == c = "sky"

is_modvar_key(c, key) ==
    is_valid_key(c, key) /\ get_std_key(c, key) \notin {"0", "Z"}

is_xyvar_key(c, key) == ~is_sky(c) /\ key = "1"

get_all_modvars(c) ==
    SelectSeq(classes[c].keys_sorted, LAMBDA k : is_modvar_key(c, k))

\* self.get_val(key).update(val)
set_modvar_val_updated(g, u) == OC(u.heap, g.rec, u.err, PNone)

set_modvar_val_got(g, val) ==
    IF g.err # "" THEN g
    ELSE set_modvar_val_updated(g, update(g.heap, g.ret.ref, <<val>>))

set_modvar_val_touched(t, key, val) ==
    IF t.err # "" THEN t
    ELSE set_modvar_val_got(get_val(t.heap, t.rec, key), val)

\* a set_modvar_val that always stores what SlotsDict.set_prop builds
set_modvar_val_replacing(h, r, key, val) == SlotsDict_set_prop(h, r, key, val)

\* a set_modvar_val that stores a Parameter it is given as the object it is
set_modvar_val_sharing(h, r, key, val) ==
    IF val.t = "par" THEN OC(h, StoreKey(r, key, val), "", PNone)
    ELSE SlotsDict_set_prop(h, r, key, val)

\* the tail of set_modvar_val, after the combined x/y form is dealt with
set_modvar_val_plain(h, r, key, val) ==
    IF ~is_set_key(r, key) /\ ~is_opt_key(r.cls, key)
    THEN SlotsDict_set_prop(h, r, key, val)
    ELSE set_modvar_val_touched(
            IF is_set_key(r, key) THEN OC(h, r, "", PNone)
            ELSE touch_opt_key(h, r, key),
            key, val)

RECURSIVE set_modvar_val(_, _, _, _)

\* self.set_modvar_val('2', val[1::2]) after '1' was set
set_modvar_val_y(x, lst) ==
    IF x.err # "" THEN x
    ELSE set_modvar_val(x.heap, x.rec, "2", PTup(<<lst[2], lst[4]>>))

\* val=val.split() of the combined x/y form
set_modvar_val_xy(h, r, key, lst) ==
    IF Len(lst) = 4
    THEN set_modvar_val_y(
            set_modvar_val(h, r, "1", PTup(<<lst[1], lst[3]>>)), lst)
    ELSE set_modvar_val_plain(h, r, key, PTup(lst))

set_modvar_val(h, r, key, val) ==
    IF ~is_modvar_key(r.cls, key) THEN OC(h, r, "AssertionError", PNone)
    ELSE IF is_xyvar_key(r.cls, key) /\ is_str_type(val)
         THEN set_modvar_val_xy(h, r, key, SplitTokens(val))
         ELSE set_modvar_val_plain(h, r, key, val)

Model_set_prop(h, r, key, val) ==
    IF is_modvar_key(r.cls, key) THEN set_modvar_val(h, r, key, val)
    ELSE SlotsDict_set_prop(h, r, key, val)

\* obj.set_prop, dispatched on the class of obj
set_prop(h, r, key, val) ==
    IF r.cls = "header" THEN SlotsDict_set_prop(h, r, key, val)
    ELSE Model_set_prop(h, r, key, val)

\* SlotsDict.copy: the keys that are set go, one by one and through the
\* set_prop of the class, into a new record obj.  ret is the new record.
\* (keys_valid is a set: the model takes its keys in sorted order.)
RECURSIVE copy_keys(_, _, _, _)

copy_put(h, r, w, keys) ==
    IF w.err # "" THEN OC(h, r, w.err, PNone)
    ELSE copy_keys(w.heap, r, w.rec, Tail(keys))

copy_got(h, r, obj, keys, g) ==
    copy_put(h, r, set_prop(g.heap, obj, Head(keys), g.ret), keys)

copy_keys(h, r, obj, keys) ==
    IF keys = <<>> THEN OC(h, r, "", obj)
    ELSE IF ~is_set_key(r, Head(keys)) THEN copy_keys(h, r, obj, Tail(keys))
    ELSE copy_got(h, r, obj, keys, get_val(h, r, Head(keys)))

copy(h, r) == copy_keys(h, r, NewRecord(r.cls), classes[r.cls].keys_sorted)

(***************************************************************************)
(* Transformation between models.  A transform's outcome is                *)
(* [heap, rec, err, ret]: rec is the source (self) afterwards, ret the new *)
(* model.                                                                  *)
(***************************************************************************)
\* get_modvars(keys, return_dict=True): the Parameter objects of self
RECURSIVE get_modvars(_, _, _)

get_modvars_cons(g, rest) ==
    IF rest.err # "" THEN rest
    ELSE OC(rest.heap, rest.rec, "", <<g.ret>> \o rest.ret)

get_modvars_got(g, keys) ==
    IF g.err # "" THEN g
    ELSE get_modvars_cons(g, get_modvars(g.heap, g.rec, Tail(keys)))

\* every key is asserted to be a model variable before it is read
get_modvars(h, self, keys) ==
    IF keys = <<>> THEN OC(h, self, "", <<>>)
    ELSE IF ~is_modvar_key(self.cls, Head(keys))
         THEN OC(h, self, "AssertionError", PNone)
    ELSE get_modvars_got(get_val(h, self, Head(keys)), keys)

\* set_modvars_val(vals) with vals the dict {keys[i]: vals[i]}
RECURSIVE set_modvars_val(_, _, _, _)

set_modvars_val_next(w, keys, vals) ==
    IF w.err # "" THEN w
    ELSE set_modvars_val(w.heap, w.rec, Tail(keys), Tail(vals))

set_modvars_val(h, m, keys, vals) ==
    IF keys = <<>> THEN OC(h, m, "", PNone)
    ELSE set_modvars_val_next(set_modvar_val(h, m, Head(keys), Head(vals)),
                              keys, vals)

\* keys=[i for i in keys_new if i in set(keys_set)]: the fitting
\* parameters of mod that self has too, with a known value
gen_keys(self, mod) ==
    SelectSeq(get_all_modvars(mod),
              LAMBDA k : /\ k \in classes[self.cls].keys_valid
                         /\ k \notin {"0", "Z"}
                         /\ is_val_known_key(self, k))

gen_filled(vals, w) ==
    OC(w.heap, vals.rec, w.err, IF w.err = "" THEN w.rec ELSE PNone)

gen_fill(m0, keys, vals) ==
    IF vals.err # "" THEN vals
    ELSE gen_filled(vals, set_modvars_val(vals.heap, m0.rec, keys, vals.ret))

gen_made(h, self, z, m0, keys) ==
    IF m0.err # "" THEN OC(h, self, m0.err, PNone)
    ELSE IF keys = <<>> THEN OC(m0.heap, z.rec, "", m0.rec)
    ELSE gen_fill(m0, keys, get_modvars(m0.heap, z.rec, keys))

\* m=mod(); m.Z=self.Z
gen_new(h, self, mod, z, keys) ==
    gen_made(h, self, z, set_prop(z.heap, NewRecord(mod), "Z", z.ret), keys)

gen_to_other_model(h, self, mod) ==
    gen_new(h, self, mod, get_val(h, self, "Z"), gen_keys(self, mod))

\* 1/1.678 and 1.678, the factors between effective radius and scale length
RE_TO_RS == Q(1000, 1678)
RS_TO_RE == Q(1678, 1000)

\* `m.<name> *= f`: the Parameter read from m is scaled in place and then
\* assigned back to the same key.  rec is m afterwards.
imul_prop_got(g, name, f) ==
    IF g.err # "" THEN g
    ELSE set_prop(imul(g.heap, g.ret.ref, f), g.rec, name, g.ret)

imul_prop(h, m, name, f) == imul_prop_got(get_val(h, m, name), name, f)

\* the check `self.is_val_known_key('n') and self.n.val != v` made when
\* warn is true: it only prints, but reading n.val can raise
warn_n_got(g) ==
    IF g.err # "" THEN g
    ELSE IF g.heap[g.ret.ref].val = None
         THEN OC(g.heap, g.rec, "AttributeError", PNone)
         ELSE OC(g.heap, g.rec, "", PNone)

warn_n(h, self, warn) ==
    IF warn /\ is_val_known_key(self, "n") THEN warn_n_got(get_val(h, self, "n"))
    ELSE OC(h, self, "", PNone)

\* `if m.is_val_known_key(key): m.<name> *= f` on the new model m.ret
rescale_done(m, w) ==
    OC(w.heap, m.rec, w.err, IF w.err = "" THEN w.rec ELSE PNone)

rescale(m, key, name, f) ==
    IF m.err # "" THEN m
    ELSE IF is_val_known_key(m.ret, key)
         THEN rescale_done(m, imul_prop(m.heap, m.ret, name, f))
         ELSE m

\* m.n = n; m.n.freeze(); if n_free: m.n.free()
set_n_frozen(m, g, f, n_free) ==
    OC((IF n_free THEN set_state(f.heap, g.ret.ref, PInt(FREE)) ELSE f).heap,
       m.rec, "", g.rec)

set_n_got(m, g, n_free) ==
    set_n_frozen(m, g, set_state(g.heap, g.ret.ref, PInt(FREEZE)), n_free)

set_n_set(m, w, n_free) ==
    IF w.err # "" THEN OC(w.heap, m.rec, w.err, PNone)
    ELSE set_n_got(m, get_val(w.heap, w.rec, "n"), n_free)

set_n(m, n, n_free) ==
    IF m.err # "" THEN m
    ELSE set_n_set(m, set_prop(m.heap, m.ret, "n", PInt(n)), n_free)

Sersic_to_devauc_checked(c) ==
    IF c.err # "" THEN c ELSE gen_to_other_model(c.heap, c.rec, "devauc")

Sersic_to_devauc(h, self, warn) ==
    Sersic_to_devauc_checked(warn_n(h, self, warn))

Sersic_to_expdisk_checked(c) ==
    IF c.err # "" THEN c
    ELSE rescale(gen_to_other_model(c.heap, c.rec, "expdisk"),
                 "rs", "rs", RE_TO_RS)

Sersic_to_expdisk(h, self, warn) ==
    Sersic_to_expdisk_checked(warn_n(h, self, warn))

Expdisk_to_sersic(h, self, n_free) ==
    set_n(rescale(gen_to_other_model(h, self, "sersic"), "rs", "re", RS_TO_RE),
          1, n_free)

Devauc_to_sersic(h, self, n_free) ==
    set_n(gen_to_other_model(h, self, "sersic"), 4, n_free)

\* hs = rs.val*ba.val with the state of the pair
scale_height(rs, ba) ==
    IF rs.val = None \/ ba.val = None
    THEN [err |-> "AttributeError", val |-> PNone]
    ELSE [err |-> "",
          val |-> PTup(<<PFloat(QMul(rs.val, ba.val)),
                         PInt(state_of_comb_pars(rs, ba))>>)]

\* assert hs.val>0; ba = hs.val/rs.val with the state of the pair
axis_ratio(rs, hs) ==
    IF hs.val = None THEN [err |-> "AttributeError", val |-> PNone]
    ELSE IF ~(hs.val[1] > 0) THEN [err |-> "AssertionError", val |-> PNone]
    ELSE IF rs.val = None THEN [err |-> "AttributeError", val |-> PNone]
    ELSE IF rs.val[1] = 0 THEN [err |-> "ZeroDivisionError", val |-> PNone]
    ELSE [err |-> "",
          val |-> PTup(<<PFloat(QDiv(hs.val, rs.val)),
                         PInt(state_of_comb_pars(rs, hs))>>)]

\* The two transforms between expdisk and edgedisk share their shape: m is
\* the general transform of self; key kl of m takes self.rs; key kc of m
\* takes the combination of self.rs and self.<second>.
disk_done(b, w) ==
    OC(w.heap, b.rec, w.err, IF w.err = "" THEN w.rec ELSE PNone)

disk_combined(b, m1, kc, c) ==
    IF c.err # "" THEN OC(b.heap, b.rec, c.err, PNone)
    ELSE disk_done(b, set_prop(b.heap, m1, kc, c.val))

disk_second(rs, m1, b, kc) ==
    IF b.err # "" THEN OC(b.heap, b.rec, b.err, PNone)
    ELSE disk_combined(b, m1, kc,
            IF kc = "4" THEN scale_height(b.heap[rs.ret.ref], b.heap[b.ret.ref])
            ELSE axis_ratio(b.heap[rs.ret.ref], b.heap[b.ret.ref]))

disk_length(rs, w, second, kc) ==
    IF w.err # "" THEN OC(w.heap, rs.rec, w.err, PNone)
    ELSE disk_second(rs, w.rec, get_val(w.heap, rs.rec, second), kc)

disk_rs(m, rs, kl, second, kc) ==
    IF rs.err # "" THEN OC(rs.heap, rs.rec, rs.err, PNone)
    ELSE disk_length(rs, set_prop(rs.heap, m.ret, kl, rs.ret), second, kc)

disk_made(m, kl, second, kc) ==
    IF m.err # "" THEN m
    ELSE disk_rs(m, get_val(m.heap, m.rec, "rs"), kl, second, kc)

\* m.set_prop('5', self.rs); m.set_prop('4', (rs.val*ba.val, state))
Expdisk_to_edgedisk(h, self) ==
    disk_made(gen_to_other_model(h, self, "edgedisk"), "5", "ba", "4")

\* m.set_prop('4', self.rs); m.set_prop('9', (hs.val/rs.val, state))
Edgedisk_to_expdisk(h, self) ==
    disk_made(gen_to_other_model(h, self, "expdisk"), "4", "hs", "9")

(***************************************************************************)
(* Model.mod_trans_to: a direct transform, or a path searched in the graph *)
(* g of the declared direct transforms (<<m, n>> in g: class m has to_n).  *)
(***************************************************************************)
\* the to_* methods the classes declare
DeclaredEdges ==
    {<<"sersic", "devauc">>, <<"sersic", "expdisk">>,
     <<"expdisk", "sersic">>, <<"expdisk", "edgedisk">>,
     <<"edgedisk", "expdisk">>, <<"devauc", "sersic">>}

has_direct_trans(g, c, mod) == <<c, mod>> \in g

\* funcs[m]: the targets of m's direct transforms, in registry order
funcs(g, m) == SelectSeq(Mods, LAMBDA n : n # m /\ <<m, n>> \in g)

\* `mod in funcs[m]`
in_funcs(g, m, mod) == mod # m /\ mod \in ModNames /\ <<m, mod>> \in g

\* to_mod: some other model has a direct transform to mod
to_mod(g, mod) == \E m \in ModNames : in_funcs(g, m, mod)

\* the search before its loop: funcslist maps a model to the list of
\* transforms (edges) leading to it from the source
SearchStart(mod_now) ==
    [tovisit |-> <<mod_now>>, visited |-> {},
     funcslist |-> (mod_now :> <<>>), found |-> FALSE]

\* `for t in funcs[m]`: every target not yet visited is appended to the
\* work list and its list of transforms is set
RECURSIVE SearchTargets(_, _, _, _)
SearchTargets(b, m, fs, ts) ==
    IF ts = <<>> THEN b
    ELSE IF Head(ts) \in b.visited THEN SearchTargets(b, m, fs, Tail(ts))
    ELSE SearchTargets(
            [b EXCEPT !.tovisit = Append(@, Head(ts)),
                      !.funcslist = (Head(ts) :> Append(fs, <<m, Head(ts)>>)) @@ @],
            m, fs, Tail(ts))

\* the body of `while tovisit` once m is taken off the list and visited
SearchVisit(g, mod, b, m, fs) ==
    IF funcs(g, m) = <<>> THEN b
    ELSE IF in_funcs(g, m, mod)
         THEN [b EXCEPT !.funcslist = (mod :> Append(fs, <<m, mod>>)) @@ @,
                        !.found = TRUE]
         ELSE SearchTargets(b, m, fs, funcs(g, m))

\* a turn that visits the head of the list but puts it back at the end
SearchStep_requeue(g, mod, b) ==
    SearchVisit(g, mod,
                [b EXCEPT !.tovisit = Append(Tail(@), Head(@)),
                          !.visited = @ \cup {Head(b.tovisit)}],
                Head(b.tovisit), b.funcslist[Head(b.tovisit)])

\* one turn of `while tovisit`
SearchStep(g, mod, b) ==
    SearchVisit(g, mod,
                [b EXCEPT !.tovisit = Tail(@),
                          !.visited = @ \cup {Head(b.tovisit)}],
                Head(b.tovisit), b.funcslist[Head(b.tovisit)])

SearchRunning(b) == b.tovisit # <<>> /\ ~b.found

RECURSIVE SearchLoop(_, _, _)
SearchLoop(g, mod, b) ==
    IF SearchRunning(b) THEN SearchLoop(g, mod, SearchStep(g, mod, b)) ELSE b

\* the keyword arguments a to_* method takes
KwAccepted(e) == IF e[2] = "sersic" THEN {"n_free", "warn"} ELSE {"warn"}

KwGet(kw, name, default) == IF name \in DOMAIN kw THEN kw[name] ELSE default

\* getattr(c, 'to_' + n)(m, **kwargs) for the edge e = <<c, n>>
ApplyEdge(h, m, e, kw) ==
    IF ~(DOMAIN kw \subseteq KwAccepted(e)) THEN OC(h, m, "TypeError", PNone)
    ELSE CASE e = <<"sersic", "devauc">> ->
                Sersic_to_devauc(h, m, KwGet(kw, "warn", TRUE))
           [] e = <<"sersic", "expdisk">> ->
                Sersic_to_expdisk(h, m, KwGet(kw, "warn", TRUE))
           [] e = <<"expdisk", "sersic">> ->
                Expdisk_to_sersic(h, m, KwGet(kw, "n_free", FALSE))
           [] e = <<"devauc", "sersic">> ->
                Devauc_to_sersic(h, m, KwGet(kw, "n_free", FALSE))
           [] e = <<"expdisk", "edgedisk">> -> Expdisk_to_edgedisk(h, m)
           [] e = <<"edgedisk", "expdisk">> -> Edgedisk_to_expdisk(h, m)

\* `for f in funcslist[mod]: m=f(m, **kwargs)`; first tells that m is self.
\* rec is self afterwards, ret the last m.
RECURSIVE ApplyPath(_, _, _, _, _, _)

ApplyPath_next(self1, r, path, kw) ==
    IF r.err # "" THEN OC(r.heap, self1, r.err, PNone)
    ELSE ApplyPath(r.heap, self1, r.ret, FALSE, Tail(path), kw)

ApplyPath_edge(self, first, r, path, kw) ==
    ApplyPath_next(IF first THEN r.rec ELSE self, r, path, kw)

ApplyPath(h, self, m, first, path, kw) ==
    IF path = <<>> THEN OC(h, self, "", m)
    ELSE ApplyPath_edge(self, first, ApplyEdge(h, m, Head(path), kw), path, kw)

\* SearchPath_found with funcslist.get(mod, []) in place of the test that
\* raises: the search that C3 tells the code's from
SearchPath_found_or_empty(mod, b) ==
    IF mod \notin DOMAIN b.funcslist THEN [err |-> "", path |-> <<>>]
    ELSE [err |-> "", path |-> b.funcslist[mod]]

\* `if mod not in funcslist: raise`, else funcslist[mod]
SearchPath_found(mod, b) ==
    IF mod \notin DOMAIN b.funcslist
    THEN [err |-> "Exception", path |-> <<>>]
    ELSE [err |-> "", path |-> b.funcslist[mod]]

\* the list of transforms mod_trans_to settles on, or the error it raises
\* before applying any
SearchPath(g, mod_now, mod) ==
    IF has_direct_trans(g, mod_now, mod)
    THEN [err |-> "", path |-> <<<<mod_now, mod>>>>]
    ELSE IF ~to_mod(g, mod) THEN [err |-> "Exception", path |-> <<>>]
    ELSE SearchPath_found(mod, SearchLoop(g, mod, SearchStart(mod_now)))

\* `if mod==mod_now: self.copy()`: the copy is made and dropped
mod_trans_to_copy(h, self, mod) ==
    IF mod = self.cls THEN copy(h, self) ELSE OC(h, self, "", PNone)

mod_trans_to_found(self, c, p, kw) ==
    IF p.err # "" THEN OC(c.heap, self, p.err, PNone)
    ELSE ApplyPath(c.heap, self, self, TRUE, p.path, kw)

mod_trans_to_copied(h, self, mod, kw, g, c) ==
    IF c.err # "" THEN OC(h, self, c.err, PNone)
    ELSE mod_trans_to_found(self, c, SearchPath(g, self.cls, mod), kw)

mod_trans_to(h, self, mod, kw, g) ==
    mod_trans_to_copied(h, self, mod, kw, g, mod_trans_to_copy(h, self, mod))

(***************************************************************************)
(* Constraint rules (src/constraint.py).  A rule is [comps, par,           *)
(* type_cons, range_cons].  A line of text is the sequence of its          *)
(* whitespace-separated fields: the first field is the sequence of its     *)
(* lexemes (a run of digits [d |-> n], any other character [ch |-> c]),    *)
(* the second is a string, the others are words [w |-> s] or number        *)
(* literals [num |-> q]; a word "#" starts a comment.                      *)
(***************************************************************************)
ptns_cons ==
    <<"hard_offset", "hard_ratio", "soft_fromto", "soft_shift",
      "soft_offset", "soft_ratio">>

types_cons_valid == {ptns_cons[i] : i \in 1..Len(ptns_cons)}

map_alias_types(t) ==
    CASE t = "hard_diff" -> "hard_offset"
      [] t = "soft_vary" -> "soft_shift"
      [] t = "soft_diff" -> "soft_offset"
      [] OTHER           -> t

seps_cons(t) ==
    CASE t \in {"hard_offset", "hard_ratio"} -> "_"
      [] t = "soft_offset"                   -> "-"
      [] t = "soft_ratio"                    -> "/"
      [] OTHER                               -> ""

valid_par_names ==
    {"x", "y", "mag", "re", "rs", "n", "q", "pa", "alpha", "beta", "gamma",
     "c", "f1a", "f1p", "f2a", "f2p", "r5"}

map_alias_par_names(p) ==
    CASE p = "ba" -> "q"
      [] p = "x0" -> "x"
      [] p = "y0" -> "y"
      [] OTHER    -> p

\* str.isdigit() on the tokens the model uses
IsDigit(p) == p \in {"0", "1", "2", "3", "4", "5", "10", "12"}

\* [a-zA-Z\d]+ on the tokens the model uses
IsAlnum(p) ==
    IsDigit(p) \/ p \in valid_par_names \/ p \in {"ba", "x0", "y0", "foo", "X"}

\* t.startswith('soft_')
is_soft_cons(t) ==
    t \in {"soft_fromto", "soft_shift", "soft_offset", "soft_ratio",
           "soft_vary", "soft_diff", "soft_bogus"}

\* 0 stands for None: no requirement
num_comps_req_of_cons(t) ==
    IF ~is_soft_cons(t) THEN 0
    ELSE IF t \in {"soft_fromto", "soft_shift"} THEN 1 ELSE 2

\* the name stored for par, or the ValueError of raise_err
standard_par_name(par) ==
    IF ~is_str_type(par) THEN [err |-> "ValueError", res |-> ""]
    ELSE IF IsDigit(par.s) THEN [err |-> "", res |-> par.s]
    ELSE IF map_alias_par_names(par.s) # par.s
         THEN [err |-> "", res |-> map_alias_par_names(par.s)]
    ELSE IF par.s \notin valid_par_names THEN [err |-> "ValueError", res |-> ""]
    ELSE [err |-> "", res |-> par.s]

\* the fields of a rule as ConsRule.__init__ sets them before parsing
EmptyRule == [comps |-> <<>>, par |-> "", type_cons |-> "", range_cons |-> <<>>]

\* the outcome of a construction: the rule, or the error raised
RuleOK(r) == [err |-> "", rule |-> r]
RuleErr(e) == [err |-> e, rule |-> EmptyRule]

\* set_cons, after the type was set to t: comps, their number, par, range
set_cons_checked(comps, p, t, range_cons) ==
    IF num_comps_req_of_cons(t) # 0 /\ num_comps_req_of_cons(t) # Len(comps)
    THEN RuleErr("AssertionError")
    ELSE IF p.err # "" THEN RuleErr(p.err)
    ELSE IF ~is_soft_cons(t)
         THEN RuleOK([comps |-> comps, par |-> p.res, type_cons |-> t,
                      range_cons |-> <<>>])
    ELSE IF range_cons.t = "none" THEN RuleErr("TypeError")
    ELSE IF Len(range_cons.xs) # 2 THEN RuleErr("AssertionError")
    ELSE RuleOK([comps |-> comps, par |-> p.res, type_cons |-> t,
                 range_cons |-> range_cons.xs])

\* set_cons(comps, par, type_cons, range_cons); range_cons is PNone when
\* absent and a list PTup(xs) otherwise: len(None) is a TypeError, a list
\* of another length than 2 fails the assertion.  The rule is under
\* construction in every call of the model, so the fields set before a
\* check failed are lost with it.
set_cons(comps, par, type_cons, range_cons) ==
    IF map_alias_types(type_cons) \notin types_cons_valid
    THEN RuleErr("AssertionError")
    ELSE set_cons_checked(comps, standard_par_name(par),
                          map_alias_types(type_cons), range_cons)

\* a field that reads as a float by fmt_flt
IsFlt(f) == "num" \in DOMAIN f

\* the lexemes and words of a line
Digits(n) == [d |-> n]
Char(c) == [ch |-> c]
Word(s) == [w |-> s]
Num(q) == [num |-> q]

IsDigits(x) == "d" \in DOMAIN x

\* the first field against the components part of the pattern of type t
comps_match(t, c) ==
    CASE t \in {"hard_offset", "hard_ratio"} ->
            /\ Len(c) >= 3
            /\ Len(c) % 2 = 1
            /\ \A i \in 1..Len(c) :
                  IF i % 2 = 1 THEN IsDigits(c[i]) ELSE c[i] = Char("_")
      [] t \in {"soft_fromto", "soft_shift"} -> Len(c) = 1 /\ IsDigits(c[1])
      [] OTHER ->
            /\ Len(c) = 3
            /\ IsDigits(c[1]) /\ IsDigits(c[3])
            /\ c[2] = Char(seps_cons(t))

\* the number of fields the values part of the pattern of type t takes
vals_len(t) ==
    CASE t \in {"hard_offset", "hard_ratio"} -> 1
      [] t = "soft_fromto"                   -> 3
      [] OTHER                               -> 2

\* the fields after par against the values part of the pattern of type t,
\* to the end of the line or to a comment
vals_match(t, v) ==
    /\ Len(v) >= vals_len(t)
    /\ CASE t = "hard_offset" -> v[1] = Word("offset")
         [] t = "hard_ratio"  -> v[1] = Word("ratio")
         [] t = "soft_fromto" -> IsFlt(v[1]) /\ v[2] = Word("to") /\ IsFlt(v[3])
         [] OTHER             -> IsFlt(v[1]) /\ IsFlt(v[2])
    /\ Len(v) > vals_len(t) => v[vals_len(t) + 1] = Word("#")

\* ptn.match(line) for the pattern of type t
ptn_match(t, line) ==
    /\ Len(line) >= 3
    /\ comps_match(t, line[1])
    /\ IsAlnum(line[2])
    /\ vals_match(t, SubSeq(line, 3, Len(line)))

\* comps.split(s) and int() of the parts
comps_of(c) == [i \in 1..((Len(c) + 1) \div 2) |-> c[2 * i - 1].d]

\* vals[-2:] as floats
range_of(t, v) == IF t = "soft_fromto" THEN <<v[1].num, v[3].num>>
                  ELSE <<v[1].num, v[2].num>>

\* load_line once the pattern of type t matched
load_line_matched(t, line) ==
    set_cons(comps_of(line[1]), PStr(line[2]), t,
             IF is_soft_cons(t)
             THEN PTup(range_of(t, SubSeq(line, 3, Len(line))))
             ELSE PNone)

\* the patterns are tried in the order of ptns_cons, from the i-th on; a
\* line no pattern matches leaves the rule as __init__ made it
RECURSIVE load_line_from(_, _)
load_line_from(i, line) ==
    IF i > Len(ptns_cons) THEN RuleOK(EmptyRule)
    ELSE IF ptn_match(ptns_cons[i], line) THEN load_line_matched(ptns_cons[i], line)
    ELSE load_line_from(i + 1, line)

load_line(line) ==
    IF line = <<>> \/ line[1] = <<Char("#")>> THEN RuleOK(EmptyRule)
    ELSE load_line_from(1, line)

\* ConsRule(*args): one argument is a line, three or four are comps, par,
\* type_cons and range_cons
ConsRule(args) ==
    CASE Len(args) = 1 -> load_line(args[1])
      [] Len(args) = 3 -> set_cons(args[1], args[2], args[3], PNone)
      [] Len(args) = 4 -> set_cons(args[1], args[2], args[3], args[4])
      [] OTHER         -> RuleErr("Exception")

\* Constraints.add_cons(*args) on the list rules_cons
add_cons_made(rules, r) ==
    IF r.err # "" THEN [err |-> r.err, rules |-> rules]
    ELSE [err |-> "", rules |-> Append(rules, r.rule)]

add_cons(rules, args) == add_cons_made(rules, ConsRule(args))

\* the numbers that '%g', '%.3e' and '%.4f' write, as float() reads them back
RECURSIVE Pow10(_)
Pow10(k) == IF k = 0 THEN 1 ELSE 10 * Pow10(k - 1)

\* the number of digits before the decimal point of n/d >= 0 (0 below 1)
RECURSIVE IntDigits(_, _, _)
IntDigits(n, d, k) == IF n < d * Pow10(k) THEN k ELSE IntDigits(n, d, k + 1)

\* the number of binary digits of the integer n >= 0
RECURSIVE BitLen(_)
BitLen(n) == IF n = 0 THEN 0 ELSE 1 + BitLen(n \div 2)

\* A float holds 53 binary digits, the nearest to the number it was read
\* from, a tie going to the even digit.  The binary digits of r/d after
\* the point are taken one at a time, left of the 53 still to take, lsb
\* the last one taken and started once a digit 1 was seen; the result is
\* the side the float lies on: -1 below the number, 0 on it, 1 above.
RECURSIVE FloatSide_bits(_, _, _, _, _)
FloatSide_bits(r, d, left, started, lsb) ==
    IF r = 0 THEN 0
    ELSE IF left = 0
         THEN IF 2 * r < d THEN -1
              ELSE IF 2 * r > d THEN 1
              ELSE IF lsb = 1 THEN 1 ELSE -1
    ELSE IF 2 * r >= d
         THEN FloatSide_bits(2 * r - d, d, left - 1, TRUE, 1)
    ELSE FloatSide_bits(2 * r, d, IF started THEN left - 1 ELSE left,
                        started, 0)

\* the side of n/d > 0 the float of n/d lies on
FloatSide(n, d) ==
    FloatSide_bits(n % d, d, 53 - BitLen(n \div d), n >= d, (n \div d) % 2)

\* n/d >= 0 rounded to an integer as the formats of C round a float whose
\* number lies on side s of the float: to the nearest, and half way
\* between two integers to the one on the float's side, to the even one
\* when the float is the number
RoundDiv(n, d, s) ==
    IF (2 * n + d) % (2 * d) # 0 THEN (2 * n + d) \div (2 * d)
    ELSE IF s > 0 THEN (2 * n + d) \div (2 * d)
    ELSE IF s < 0 THEN (2 * n + d) \div (2 * d) - 1
    ELSE IF ((2 * n + d) \div (2 * d)) % 2 = 0 THEN (2 * n + d) \div (2 * d)
    ELSE (2 * n + d) \div (2 * d) - 1

\* round(n * 10^p / d), the powers of ten d holds taken out first
RoundScaled_g(n, d, p, g) ==
    RoundDiv(n * (Pow10(p) \div g), d \div g, FloatSide(n, d))

RoundScaled(n, d, p) == RoundScaled_g(n, d, p, GCD(Pow10(p), d))

\* the number of zeros after the decimal point of n/d < 1, plus one
RECURSIVE LeadZeros(_, _, _)
LeadZeros(n, d, z) == IF n * Pow10(z) >= d THEN z ELSE LeadZeros(n, d, z + 1)

\* the decimal exponent of n/d > 0
Exp10(n, d) == IF n >= d THEN IntDigits(n, d, 0) - 1 ELSE -LeadZeros(n, d, 1)

\* n/d > 0 rounded to p decimals, p below 0 rounding to tens, hundreds, ...
FormatSig_pos(n, d, p) ==
    IF p >= 0 THEN Q(RoundScaled(n, d, p), Pow10(p))
    ELSE Q(RoundDiv(n, d * Pow10(-p), FloatSide(n, d)) * Pow10(-p), 1)

\* q rounded to sig significant digits: what '%g' (sig = 6) and '%.3e'
\* (sig = 4) write
FormatSig(q, sig) ==
    IF q[1] = 0 THEN q
    ELSE IF q[1] < 0
         THEN QMul(<<-1, 1>>,
                   FormatSig_pos(-q[1], q[2], sig - 1 - Exp10(-q[1], q[2])))
    ELSE FormatSig_pos(q[1], q[2], sig - 1 - Exp10(q[1], q[2]))

\* q rounded to nd decimals: what '%.<nd>f' writes
FormatFixed(q, nd) ==
    IF q[1] < 0 THEN QMul(<<-1, 1>>, Q(RoundScaled(-q[1], q[2], nd), Pow10(nd)))
    ELSE Q(RoundScaled(q[1], q[2], nd), Pow10(nd))

FormatG(q) == FormatSig(q, 6)

\* sep.join(map(str, comps)) as lexemes
comps_join(comps, sep) ==
    [i \in 1..(2 * Len(comps) - 1) |->
        IF i % 2 = 1 THEN Digits(comps[(i + 1) \div 2]) ELSE Char(sep)]

\* ConsRule.__str__: the line of a rule; an empty line without components
ConsRule_str(r) ==
    IF r.comps = <<>> THEN <<>>
    ELSE <<IF seps_cons(r.type_cons) = "" THEN <<Digits(r.comps[1])>>
           ELSE comps_join(r.comps, seps_cons(r.type_cons)),
           r.par>>
         \o CASE r.type_cons = "hard_offset" -> <<Word("offset")>>
              [] r.type_cons = "hard_ratio"  -> <<Word("ratio")>>
              [] r.type_cons = "soft_fromto" ->
                    <<Num(FormatG(r.range_cons[1])), Word("to"),
                      Num(FormatG(r.range_cons[2]))>>
              [] OTHER ->
                    <<Num(FormatG(r.range_cons[1])),
                      Num(FormatG(r.range_cons[2]))>>

(***************************************************************************)
(* GalFit (src/galfit.py): a document is [header, comps], a Header record  *)
(* and the sequence of component records.  A file is the sequence of its   *)
(* parameter lines, each [key, val] as _PATTERN_VARLINE splits it.  An     *)
(* operation's outcome is [heap, doc, err].                                *)
(***************************************************************************)
DC(h, d, e) == [heap |-> h, doc |-> d, err |-> e]

\* GalFit.__init__ with no file; GalFit.reset
NewGalFit == [header |-> NewRecord("header"), comps |-> <<>>]

\* str.lower() on the model names the files use
Lower(s) ==
    CASE s = "Sky"    -> "sky"
      [] s = "SERSIC" -> "sersic"
      [] OTHER        -> s

\* Model.get_model_class(val)(), appended to comps
GalFit_load_new(h, d, val) ==
    IF val.t = "str" /\ Lower(val.s) \in ModNames
    THEN DC(h, [d EXCEPT !.comps = Append(@, NewRecord(Lower(val.s)))], "")
    ELSE DC(h, d, "KeyError")

\* self.header.set_prop(key, val) done
GalFit_load_header(d, w) == DC(w.heap, [d EXCEPT !.header = w.rec], w.err)

\* self.comps[-1].set_prop(key, val) done
GalFit_load_comp(d, w) ==
    DC(w.heap, [d EXCEPT !.comps[Len(d.comps)] = w.rec], w.err)

\* the body of load_file's loop for one parameter line
GalFit_load_line(h, d, line) ==
    IF is_valid_key("header", line.key)
    THEN GalFit_load_header(d, set_prop(h, d.header, line.key, line.val))
    ELSE IF line.key = "0" THEN GalFit_load_new(h, d, line.val)
    ELSE IF d.comps = <<>> THEN DC(h, d, "IndexError")
    ELSE IF is_valid_key(d.comps[Len(d.comps)].cls, line.key)
         THEN GalFit_load_comp(d, set_prop(h, d.comps[Len(d.comps)],
                                           line.key, line.val))
    ELSE DC(h, d, "")

RECURSIVE GalFit_load_lines(_, _, _, _)

GalFit_load_next(w, lines, i) ==
    IF w.err # "" THEN w ELSE GalFit_load_lines(w.heap, w.doc, lines, i + 1)

GalFit_load_lines(h, d, lines, i) ==
    IF i > Len(lines) THEN DC(h, d, "")
    ELSE GalFit_load_next(GalFit_load_line(h, d, lines[i]), lines, i)

\* load_file(fname) with reset_before_load
GalFit_load_file(h, d, lines) == GalFit_load_lines(h, NewGalFit, lines, 1)

\* Parameter.str_val: one token, or the AttributeError of a missing val
str_val(p) ==
    IF p.val = None THEN [err |-> "AttributeError", toks |-> <<>>]
    ELSE IF Abs(p.val[1]) * 1000 < p.val[2]
         THEN [err |-> "", toks |-> <<PLit(FormatSig(p.val, 4), "e")>>]
    ELSE [err |-> "", toks |-> <<PLit(FormatFixed(p.val, 4), "f")>>]

\* '%i' % n
StrInt(n) == PLit(<<n, 1>>, "i")

\* Parameter.__str__: '%-11s %i' % (str_val, state)
Parameter_str(p) ==
    IF p.val = None THEN str_val(p)
    ELSE [err |-> "", toks |-> str_val(p).toks \o <<StrInt(p.state)>>]

\* _fmt_float of the class: '%.3f' of GFSlotsDict, '%.4f' of Model, '%.3e'
\* of Sky
fmt_float(c) ==
    CASE c = "header" -> "%.3f"
      [] c = "sky"    -> "%.3e"
      [] OTHER        -> "%.4f"

\* fmt % q for the formats of fmt_float
fmt_float_of(fmt, q) ==
    CASE fmt = "%.3f" -> PLit(FormatFixed(q, 3), "f3")
      [] fmt = "%.3e" -> PLit(FormatSig(q, 4), "e")
      [] OTHER        -> PLit(FormatFixed(q, 4), "f")

\* '%g' % q for |q| < 1e-3: zero is written '0'
StrG(q) == IF q[1] = 0 THEN StrInt(0) ELSE PLit(FormatSig(q, 6), "g")

\* GFSlotsDict.strprint_of_val_scalar: [err, toks]
strprint_of_val_scalar(h, c, v) ==
    CASE v.t = "float" ->
            [err |-> "",
             toks |-> IF Abs(v.q[1]) * 1000 < v.q[2] THEN <<StrG(v.q)>>
                      ELSE <<fmt_float_of(fmt_float(c), v.q)>>]
      [] v.t = "par" -> Parameter_str(h[v.ref])
      [] v.t = "int" -> [err |-> "", toks |-> <<StrInt(v.n)>>]
      [] v.t = "txt" -> [err |-> "", toks |-> v.toks]
      [] OTHER       -> [err |-> "", toks |-> <<v>>]

\* strprint_join_vec over the elements from the i-th on
RECURSIVE strprint_join_vec(_, _, _, _)

strprint_join_next(s, rest) ==
    IF s.err # "" THEN s
    ELSE IF rest.err # "" THEN rest
    ELSE [err |-> "", toks |-> s.toks \o rest.toks]

strprint_join_vec(h, c, xs, i) ==
    IF i > Len(xs) THEN [err |-> "", toks |-> <<>>]
    ELSE strprint_join_next(strprint_of_val_scalar(h, c, xs[i]),
                            strprint_join_vec(h, c, xs, i + 1))

\* SlotsDict.strprint_of_val
strprint_of_val(h, c, v) ==
    IF is_vec_type(v) THEN strprint_join_vec(h, c, v.xs, 1)
    ELSE strprint_of_val_scalar(h, c, v)

\* the text of a value: a single token is the token itself
Text(toks) == IF Len(toks) = 1 THEN toks[1] ELSE PTxt(toks)

\* the outcome of printing a key: [heap, rec, err, lines]; lines is empty
\* for a key that is left out
ST(h, r, e, lines) == [heap |-> h, rec |-> r, err |-> e, lines |-> lines]

strprint_line(g, k, s) ==
    IF s.err # "" THEN ST(g.heap, g.rec, s.err, <<>>)
    ELSE ST(g.heap, g.rec, "", << [key |-> k, val |-> Text(s.toks)] >>)

\* SlotsDict.strprint_of_val_key with val = get_val(key) in g
strprint_of_val_got(g, k) ==
    IF g.err # "" THEN ST(g.heap, g.rec, g.err, <<>>)
    ELSE strprint_line(g, k, strprint_of_val(g.heap, g.rec.cls, g.ret))

\* '%s %s  %i %i' % (sx, sy, x0.state, y0.state) of the two position objects
strprint_xy(x0, y0) ==
    IF x0.val = None \/ y0.val = None
    THEN [err |-> "AttributeError", toks |-> <<>>]
    ELSE [err |-> "",
          toks |-> str_val(x0).toks \o str_val(y0).toks
                   \o <<StrInt(x0.state), StrInt(y0.state)>>]

strprint_xy_y(gx, gy) ==
    IF gy.err # "" THEN ST(gy.heap, gy.rec, gy.err, <<>>)
    ELSE strprint_line(gy, "1",
                       strprint_xy(gy.heap[gx.ret.ref], gy.heap[gy.ret.ref]))

strprint_xy_x(gx) ==
    IF gx.err # "" THEN ST(gx.heap, gx.rec, gx.err, <<>>)
    ELSE strprint_xy_y(gx, get_val(gx.heap, gx.rec, "2"))

\* Model.strprint_of_val_key: the line of key k, key '2' merged into '1'
\* for every type but sky
strprint_of_val_key(h, r, k) ==
    IF r.cls # "header" /\ ~is_sky(r.cls) /\ k = "2" THEN ST(h, r, "", <<>>)
    ELSE IF r.cls # "header" /\ ~is_sky(r.cls) /\ k = "1"
         THEN strprint_xy_x(get_val(h, r, "1"))
    ELSE strprint_of_val_got(get_val(h, r, k), k)

\* iter_lines over keys_sorted from the i-th key on
RECURSIVE iter_lines(_, _, _, _)

iter_lines_rest(s, rest) ==
    ST(rest.heap, rest.rec, rest.err, s.lines \o rest.lines)

iter_lines_next(s, keys, i) ==
    IF s.err # "" THEN s
    ELSE iter_lines_rest(s, iter_lines(s.heap, s.rec, keys, i + 1))

iter_lines(h, r, keys, i) ==
    IF i > Len(keys) THEN ST(h, r, "", <<>>)
    ELSE iter_lines_next(strprint_of_val_key(h, r, keys[i]), keys, i)

\* str(obj) of a Header or a Model
str_print(h, r) == iter_lines(h, r, classes[r.cls].keys_sorted, 1)

\* GalFit.__str__: [heap, doc, err, header, blocks], the lines of the
\* header and the lines of each component
SD(h, d, e, hl, bl) ==
    [heap |-> h, doc |-> d, err |-> e, header |-> hl, blocks |-> bl]

RECURSIVE GalFit_str_comps(_, _, _, _, _)

GalFit_str_comp(d, hl, bl, i, s) ==
    IF s.err # ""
    THEN SD(s.heap, [d EXCEPT !.comps[i] = s.rec], s.err, hl, bl)
    ELSE GalFit_str_comps(s.heap, [d EXCEPT !.comps[i] = s.rec], hl,
                          Append(bl, s.lines), i + 1)

GalFit_str_comps(h, d, hl, bl, i) ==
    IF i > Len(d.comps) THEN SD(h, d, "", hl, bl)
    ELSE GalFit_str_comp(d, hl, bl, i, str_print(h, d.comps[i]))

GalFit_str_header(d, s) ==
    IF s.err # ""
    THEN SD(s.heap, [d EXCEPT !.header = s.rec], s.err, <<>>, <<>>)
    ELSE GalFit_str_comps(s.heap, [d EXCEPT !.header = s.rec], s.lines,
                          <<>>, 1)

GalFit_str(h, d) == GalFit_str_header(d, str_print(h, d.header))

\* the parameter lines of the text str(doc) gives: those of the header, then
\* each component's
RECURSIVE Flatten(_)
Flatten(bl) == IF bl = <<>> THEN <<>> ELSE Head(bl) \o Flatten(Tail(bl))

FileOf(s) == s.header \o Flatten(s.blocks)

\* comps[index] of a list of n elements: the position counted from 1, or 0
\* when the index is out of range
ListIndex(n, index) ==
    IF index >= 0 THEN (IF index < n THEN index + 1 ELSE 0)
    ELSE IF -index <= n THEN n + index + 1 ELSE 0

\* list.insert(index, x)
ListInsert(s, index, x) ==
    IF index >= Len(s) THEN Append(s, x)
    ELSE IF index >= 0
         THEN SubSeq(s, 1, index) \o <<x>> \o SubSeq(s, index + 1, Len(s))
    ELSE IF -index >= Len(s) THEN <<x>> \o s
    ELSE SubSeq(s, 1, Len(s) + index) \o <<x>>
         \o SubSeq(s, Len(s) + index + 1, Len(s))

GalFit_dup_comp_insert(d, index, c) ==
    IF c.err # "" THEN DC(c.heap, d, c.err)
    ELSE DC(c.heap,
            [d EXCEPT !.comps =
                ListInsert(@, IF index = -1 THEN Len(d.comps) ELSE index + 1,
                           c.ret)],
            "")

\* dup_comp(index) with no index_dup
GalFit_dup_comp(h, d, index) ==
    IF ListIndex(Len(d.comps), index) = 0 THEN DC(h, d, "IndexError")
    ELSE GalFit_dup_comp_insert(d, index,
             copy(h, d.comps[ListIndex(Len(d.comps), index)]))

\* Model.update_modvar(key, state=state) with the Parameter in g
update_modvar_got(g, state) ==
    IF g.err # "" THEN g
    ELSE set_modvar_val_updated(g, set_state(g.heap, g.ret.ref, PStr(state)))

update_modvar_touched(t, key, state) ==
    IF t.err # "" THEN t
    ELSE update_modvar_got(get_val(t.heap, t.rec, key), state)

\* update_modvar passing over every key that is unset: the update that C21
\* tells the code's from
update_modvar_if_set(h, r, key, state) ==
    IF ~is_modvar_key(r.cls, key) THEN OC(h, r, "AssertionError", PNone)
    ELSE IF is_set_key(r, key) THEN update_modvar_got(get_val(h, r, key), state)
    ELSE OC(h, r, "", PNone)

\* Model.update_modvar(key, state=state)
update_modvar(h, r, key, state) ==
    IF ~is_modvar_key(r.cls, key) THEN OC(h, r, "AssertionError", PNone)
    ELSE IF is_set_key(r, key) THEN update_modvar_got(get_val(h, r, key), state)
    ELSE IF ~is_opt_key(r.cls, key) THEN OC(h, r, "Exception", PNone)
    ELSE update_modvar_touched(touch_opt_key(h, r, key), key, state)

\* Model.set_modvar_state(state) over the model variables from the i-th on
RECURSIVE set_modvar_state_from(_, _, _, _)

set_modvar_state_next(w, state, i) ==
    IF w.err # "" THEN w
    ELSE set_modvar_state_from(w.heap, w.rec, state, i + 1)

set_modvar_state_from(h, r, state, i) ==
    IF i > Len(get_all_modvars(r.cls)) THEN OC(h, r, "", PNone)
    ELSE set_modvar_state_next(
            update_modvar(h, r, get_all_modvars(r.cls)[i], state), state, i)

set_modvar_state(h, r, state) == set_modvar_state_from(h, r, state, 1)

\* `for obj in objs: obj.set_modvar_state(state)`, objs given by the places
\* of the components in self.comps
RECURSIVE set_modvar_state_objs(_, _, _, _)

set_modvar_state_obj(d, state, places, w) ==
    IF w.err # ""
    THEN DC(w.heap, [d EXCEPT !.comps[Head(places)] = w.rec], w.err)
    ELSE set_modvar_state_objs(w.heap,
                               [d EXCEPT !.comps[Head(places)] = w.rec],
                               state, Tail(places))

set_modvar_state_objs(h, d, state, places) ==
    IF places = <<>> THEN DC(h, d, "")
    ELSE set_modvar_state_obj(d, state, places,
            set_modvar_state(h, d.comps[Head(places)], state))

\* GalFit.set_modvar_state_comps(state, comps)
set_modvar_state_comps(h, d, state, comps) ==
    IF comps = None
    THEN set_modvar_state_objs(h, d, state, [i \in 1..Len(d.comps) |-> i])
    ELSE IF \E i \in 1..Len(comps) : ListIndex(Len(d.comps), comps[i]) = 0
         THEN DC(h, d, "IndexError")
    ELSE set_modvar_state_objs(h, d, state,
            [i \in 1..Len(comps) |-> ListIndex(Len(d.comps), comps[i])])

\* GalFit.free(comps), GalFit.freeze(comps)
GalFit_free(h, d, comps) == set_modvar_state_comps(h, d, "free", comps)

GalFit_freeze(h, d, comps) == set_modvar_state_comps(h, d, "freeze", comps)

\* Model.need_psize
need_psize(c) == c \in {"nuker", "ferrer", "king", "edgedisk"}

\* the outcome of trans_comp_to: [heap, doc, err, ret]
DR(h, d, e, v) == [heap |-> h, doc |-> d, err |-> e, ret |-> v]

\* comp.set_psize(psize, force=False): the attribute is looked up by
\* __getattr__, that is get_val('set_psize')
set_psize(h, r) == get_val(h, r, "set_psize")

\* the end of trans_comp_to: the new model is returned, or put at place p
trans_comp_to_put(d, p, inplace, s, m) ==
    IF s.err # "" THEN DR(s.heap, d, s.err, PNone)
    ELSE IF ~inplace THEN DR(s.heap, d, "", m)
    ELSE DR(s.heap, [d EXCEPT !.comps[p] = m], "", PNone)

\* comp=comp.mod_trans_to(mod, warn=warn, psize=psize) done
trans_comp_to_made(d, p, inplace, r) ==
    IF r.err # "" THEN DR(r.heap, [d EXCEPT !.comps[p] = r.rec], r.err, PNone)
    ELSE trans_comp_to_put([d EXCEPT !.comps[p] = r.rec], p, inplace,
                           IF need_psize(r.ret.cls) THEN set_psize(r.heap, r.ret)
                           ELSE OC(r.heap, r.ret, "", PNone),
                           r.ret)

trans_comp_to_trans(d, p, mod, warn, inplace, psize, s, g) ==
    IF s.err # "" THEN DR(s.heap, d, s.err, PNone)
    ELSE trans_comp_to_made(d, p, inplace,
            mod_trans_to(s.heap, d.comps[p], mod,
                         [warn |-> warn, psize |-> psize], g))

\* psize=self.header.psize read
trans_comp_to_psize(d, p, mod, warn, inplace, hd, g) ==
    IF hd.err # "" THEN DR(hd.heap, [d EXCEPT !.header = hd.rec], hd.err, PNone)
    ELSE trans_comp_to_trans([d EXCEPT !.header = hd.rec], p, mod, warn,
                             inplace, hd.ret,
                             IF need_psize(d.comps[p].cls)
                             THEN set_psize(hd.heap, d.comps[p])
                             ELSE OC(hd.heap, d.comps[p], "", PNone),
                             g)

\* GalFit.trans_comp_to(index, mod, warn, inplace), g the declared transforms
GalFit_trans_comp_to(h, d, index, mod, warn, inplace, g) ==
    IF ListIndex(Len(d.comps), index) = 0 THEN DR(h, d, "IndexError", PNone)
    ELSE trans_comp_to_psize(d, ListIndex(Len(d.comps), index), mod, warn,
                             inplace, get_val(h, d.header, "psize"), g)

(***************************************************************************)
(* The working directory (src/galfit.py chdir_to).  A path string is       *)
(* [t |-> "str", segs |-> its components]; the paths here are relative and *)
(* hold no '..'.  The document is [header, workdir].                       *)
(***************************************************************************)
Path(segs) == [t |-> "str", segs |-> segs]

\* os.path.join(a, b) of two relative paths
path_join(a, b) == a \o b

\* the length of the longest common prefix of a and b
RECURSIVE CommonPrefix(_, _)
CommonPrefix(a, b) ==
    IF a = <<>> \/ b = <<>> \/ Head(a) # Head(b) THEN 0
    ELSE 1 + CommonPrefix(Tail(a), Tail(b))

\* os.path.relpath(p, start): up from start to the common directory, then
\* down to p; '.' when they are the same
path_relpath(p, start) ==
    IF p = start THEN <<".">>
    ELSE [i \in 1..(Len(start) - CommonPrefix(p, start)) |-> ".."]
         \o SubSeq(p, CommonPrefix(p, start) + 1, Len(p))

\* Header.get_file_pars(**kw): the method takes no keyword argument
get_file_pars(kw) ==
    IF kw # {} THEN [err |-> "TypeError", pars |-> <<>>]
    ELSE [err |-> "", pars |-> <<"A", "C", "D", "F", "G">>]

\* Header.is_par_none(par)
is_par_none(h, hd, par) == get_val(h, hd, par).ret = PStr("none")

\* the loop of chdir_to over the file parameters from the i-th on
RECURSIVE chdir_to_pars(_, _, _, _, _)

chdir_to_set(d, newwd, pars, i, w) ==
    IF w.err # "" THEN DC(w.heap, [d EXCEPT !.header = w.rec], w.err)
    ELSE chdir_to_pars(w.heap, [d EXCEPT !.header = w.rec], newwd, pars, i + 1)

chdir_to_pars(h, d, newwd, pars, i) ==
    IF i > Len(pars) THEN DC(h, [d EXCEPT !.workdir = newwd], "")
    ELSE IF is_par_none(h, d.header, pars[i])
         THEN chdir_to_pars(h, d, newwd, pars, i + 1)
    ELSE chdir_to_set(d, newwd, pars, i,
            set_prop(h, d.header, pars[i],
                     Path(path_relpath(
                         path_join(d.workdir,
                                   get_val(h, d.header, pars[i]).ret.segs),
                         newwd))))

chdir_to_listed(h, d, newwd, f) ==
    IF f.err # "" THEN DC(h, d, f.err)
    ELSE chdir_to_pars(h, d, newwd, f.pars, 1)

\* GalFit.chdir_to(dest, keep_header, skip_output)
chdir_to(h, d, dest, keep_header, skip_output) ==
    IF ~is_str_type(dest) THEN DC(h, d, "AssertionError")
    ELSE IF keep_header THEN DC(h, [d EXCEPT !.workdir = dest.segs], "")
    ELSE chdir_to_listed(h, d, dest.segs, get_file_pars({"skip_output"}))

(***************************************************************************)
(* Running galfit (src/tools.py, src/_util.py).  The directory is fs, a    *)
(* function from the number NN of the name galfit.NN to what is there:     *)
(* "doc" a file holding a complete document, "part" a file holding one     *)
(* that lacks required parameters (it loads, but cannot be written),       *)
(* "dir" a directory; a number outside the domain names nothing.  The      *)
(* galfit process is p = [timeout, ecode, offset]: whether it outlives the *)
(* timeout, its exit code, and the number, counted from that of its input, *)
(* of the result file it leaves (0 for none).  The outcome of rungf is     *)
(* [fs, err, ret, proc]; proc tells the input number the process was       *)
(* started on and the directory it found, None when it was not started.    *)
(***************************************************************************)
KindAt(fs, n) == IF n \in DOMAIN fs THEN fs[n] ELSE "none"

\* os.path.isfile, os.path.exists of gfname_from_int(n)
isfile(fs, n) == KindAt(fs, n) \in {"doc", "part"}
exists(fs, n) == KindAt(fs, n) # "none"

PutAt(fs, n, k) == [m \in DOMAIN fs \cup {n} |-> IF m = n THEN k ELSE fs[m]]

RG(fs, e, v, proc) == [fs |-> fs, err |-> e, ret |-> v, proc |-> proc]

\* run_system_cmd(cmd, stdout, timeout): the exit code, or the
\* TimeoutExpired that subprocess.run raises
run_system_cmd(p) ==
    IF p.timeout THEN [err |-> "TimeoutExpired", code |-> 0]
    ELSE [err |-> "", code |-> p.ecode]

\* the directory once the process has run on galfit.fno
ProcessRan(fs, fno, p) ==
    IF p.offset = 0 \/ KindAt(fs, fno + p.offset) = "dir" THEN fs
    ELSE PutAt(fs, fno + p.offset, "doc")

\* `if ecode!=0 or not os.path.exists(fname_r): raise`, else return fno_r
rungf_checked(fs0, fs, fno, c) ==
    IF c.err # "" THEN RG(fs, c.err, PNone, [input |-> fno, fs |-> fs0])
    ELSE IF c.code # 0 \/ ~exists(fs, fno + 1)
         THEN RG(fs, "Exception", PNone, [input |-> fno, fs |-> fs0])
    ELSE RG(fs, "", PInt(fno + 1), [input |-> fno, fs |-> fs0])

\* from `if not os.path.isfile(fname)` on
rungf_run(fs, fno, p) ==
    IF ~isfile(fs, fno) THEN RG(fs, "Exception", PNone, None)
    ELSE rungf_checked(fs, ProcessRan(fs, fno, p), fno, run_system_cmd(p))

\* `if os.path.exists(fname_r): os.remove(fname_r)`
rungf_remove(fs, fno, p) ==
    IF ~exists(fs, fno + 1) THEN rungf_run(fs, fno, p)
    ELSE IF KindAt(fs, fno + 1) = "dir"
         THEN RG(fs, "IsADirectoryError", PNone, None)
    ELSE rungf_run(PutAt(fs, fno + 1, "none"), fno, p)

\* the first number from fno on that names no file
RECURSIVE NextFree(_, _)
NextFree(fs, fno) == IF isfile(fs, fno) THEN NextFree(fs, fno + 1) ELSE fno

\* gf.writeto(fname): the file is opened for writing, then str(gf) written
rungf_write(fs, gf, fno, p) ==
    IF KindAt(fs, fno) = "dir" THEN RG(fs, "IsADirectoryError", PNone, None)
    ELSE IF gf = "part"
         THEN RG(PutAt(fs, fno, "part"), "AttributeError", PNone, None)
    ELSE rungf_remove(PutAt(fs, fno, "doc"), fno, p)

\* gf=readgf(fname); change(gf); then the first free number after init
rungf_change(fs, init, p) ==
    IF KindAt(fs, init) = "none" THEN RG(fs, "FileNotFoundError", PNone, None)
    ELSE IF KindAt(fs, init) = "dir"
         THEN RG(fs, "IsADirectoryError", PNone, None)
    ELSE rungf_write(fs, KindAt(fs, init), NextFree(fs, init + 1), p)

\* rungf(init, change): change tells whether a callback is given
rungf(fs, init, change, p) ==
    IF change THEN rungf_change(fs, init, p) ELSE rungf_remove(fs, init, p)

(***************************************************************************)
(* fit.log (src/fitlog.py).  A FitLogs is the list of its logs; a log is   *)
(* a record of the attributes FitLog.__init__ creates, the raw parameter   *)
(* lines kept as strings and the parsed components as records [name, vals, *)
(* uncerts, flags].  A log is known by its place in the list.  The regular *)
(* expressions and the splitting of lines are tables over the lines the    *)
(* model reads.  Outcomes are [logs, err, ret].                            *)
(***************************************************************************)
LG(logs, e, v) == [logs |-> logs, err |-> e, ret |-> v]

NewFitLog ==
    [input_image |-> "", output_image |-> "", init_file |-> "",
     result_file |-> "", lines_pars |-> <<>>, mods_pars |-> <<>>,
     chisq |-> <<0, 1>>, ndof |-> 0, reduce_chisq |-> <<0, 1>>]

\* FitLogs.ptn_files.findall(line)
ptn_files(line) ==
    CASE line = "Input image     : a.fits" -> <<<<"Input image", "a.fits">>>>
      [] line = "Init. par. file : galfit.00" ->
            <<<<"Init. par. file", "galfit.00">>>>
      [] line = "Init. par. file : galfit.01" ->
            <<<<"Init. par. file", "galfit.01">>>>
      [] line = "Restart file    : galfit.01" ->
            <<<<"Restart file", "galfit.01">>>>
      [] line = "Restart file    : galfit.02" ->
            <<<<"Restart file", "galfit.02">>>>
      [] line = "Output image    : out.fits" -> <<<<"Output image", "out.fits">>>>
      [] OTHER -> <<>>

\* FitLogs.ptn_chisqs.findall(line)
ptn_chisqs(line) ==
    CASE line = " Chi^2 = 5,  ndof = 3" -> <<<<"Chi^2", "5">>, <<"ndof", "3">>>>
      [] line = " Chi^2/nu = 0.5" -> <<<<"Chi^2/nu", "0.5">>>>
      [] OTHER -> <<>>

\* FitLog.map_keyname_props
map_keyname_props(key) ==
    CASE key = "Input image"     -> "input_image"
      [] key = "Output image"    -> "output_image"
      [] key = "Init. par. file" -> "init_file"
      [] key = "Restart file"    -> "result_file"
      [] key = "Chi^2"           -> "chisq"
      [] key = "ndof"            -> "ndof"
      [] key = "Chi^2/nu"        -> "reduce_chisq"

\* log.set_prop_fromlog(key, val): [log, err]
set_prop_fromlog(log, key, val) ==
    IF map_keyname_props(key) \in {"chisq", "reduce_chisq"}
    THEN IF ParseFloat(val).err # "" THEN [log |-> log, err |-> "ValueError"]
         ELSE [log |-> [log EXCEPT ![map_keyname_props(key)] = ParseFloat(val).q],
               err |-> ""]
    ELSE IF map_keyname_props(key) = "ndof"
    THEN IF ParseInt(val).err # "" THEN [log |-> log, err |-> "ValueError"]
         ELSE [log |-> [log EXCEPT !.ndof = ParseInt(val).n], err |-> ""]
    ELSE [log |-> [log EXCEPT ![map_keyname_props(key)] = val], err |-> ""]

\* line.split(':', maxsplit=1): <<name, rest>>, <<>> without a colon
SplitColon(line) ==
    CASE line = "  sersic : ( 10, 20) 3 *5*" -> <<"  sersic ", " ( 10, 20) 3 *5*">>
      [] line = "  sky    : [10, 20] 1 [0]"  -> <<"  sky    ", " [10, 20] 1 [0]">>
      [] OTHER -> <<>>

\* name.strip().lower()
StripLower(s) ==
    CASE s = "  sersic " -> "sersic" [] s = "  sky    " -> "sky" [] OTHER -> s

\* str.split() of the parameter lines and of what follows their colon
SplitFields(s) ==
    CASE s = " ( 10, 20) 3 *5*" -> <<"(", "10,", "20)", "3", "*5*">>
      [] s = "          ( 0.5, 0.5) 0.5 0.5" ->
            <<"(", "0.5,", "0.5)", "0.5", "0.5">>
      [] s = " [10, 20] 1 [0]" -> <<"[10,", "20]", "1", "[0]">>
      [] s = "          0.5 [0]" -> <<"0.5", "[0]">>
      [] s = "          0.5" -> <<"0.5">>
      [] s = "  sersic : ( 10, 20) 3 *5*" ->
            <<"sersic", ":", "(", "10,", "20)", "3", "*5*">>
      [] s = "  sky    : [10, 20] 1 [0]" ->
            <<"sky", ":", "[10,", "20]", "1", "[0]">>
      [] OTHER -> Split(s)

\* LogMod.ptn_item.match(item).groups(): the closing and opening marks
\* before, the text between and the marks after; <<>> when nothing matches.
\* No item of the model has more than one mark on a side.
ptn_item(item) ==
    CASE item = "("    -> <<"(", "", "">>
      [] item = "10,"  -> <<"", "10", ",">>
      [] item = "20)"  -> <<"", "20", ")">>
      [] item = "*5*"  -> <<"*", "5", "*">>
      [] item = "[10," -> <<"[", "10", ",">>
      [] item = "20]"  -> <<"", "20", "]">>
      [] item = "[0]"  -> <<"[", "0", "]">>
      [] item = "0.5," -> <<"", "0.5", ",">>
      [] item = "0.5)" -> <<"", "0.5", ")">>
      [] OTHER         -> <<"", item, "">>

\* the flag of head[-1]+tail[0]
flag_of(head, tail) ==
    IF head = "" \/ tail = "" THEN "normal"
    ELSE CASE <<head, tail>> = <<"*", "*">> -> "unreliable"
           [] <<head, tail>> = <<"[", "]">> -> "fixed"
           [] <<head, tail>> = <<"{", "}">> -> "constrainted"
           [] OTHER -> "normal"

\* LogMod.parse_item(item): [err, val, flag], val None for an item passed over
parse_item_groups(g) ==
    IF g = <<>> THEN [err |-> "", val |-> None, flag |-> None]
    ELSE IF g[2] = "" THEN [err |-> "", val |-> None, flag |-> None]
    ELSE IF ParseFloat(g[2]).err # ""
         THEN [err |-> "ValueError", val |-> None, flag |-> None]
    ELSE [err |-> "", val |-> ParseFloat(g[2]).q, flag |-> flag_of(g[1], g[3])]

parse_item(item) == parse_item_groups(ptn_item(item))

\* the loop over the fields of a line: [err, vals, flags]
RECURSIVE parse_fields(_, _, _)

parse_fields_item(fields, vals, flags, it) ==
    IF it.err # "" THEN [err |-> it.err, vals |-> vals, flags |-> flags]
    ELSE IF it.val = None THEN parse_fields(Tail(fields), vals, flags)
    ELSE parse_fields(Tail(fields), Append(vals, it.val), Append(flags, it.flag))

parse_fields(fields, vals, flags) ==
    IF fields = <<>> THEN [err |-> "", vals |-> vals, flags |-> flags]
    ELSE parse_fields_item(fields, vals, flags, parse_item(Head(fields)))

\* s[2:] of a list
DropTwo(s) == IF Len(s) <= 2 THEN <<>> ELSE SubSeq(s, 3, Len(s))

\* LogMod.load_line_val(line): [err, name, vals, flags]
load_line_val_parsed(name, f) ==
    IF f.err # "" THEN [err |-> f.err, name |-> name, vals |-> <<>>, flags |-> <<>>]
    ELSE IF name = "sky"
         THEN [err |-> "", name |-> name, vals |-> DropTwo(f.vals),
               flags |-> DropTwo(f.flags)]
    ELSE [err |-> "", name |-> name, vals |-> f.vals, flags |-> f.flags]

load_line_val(line) ==
    IF SplitColon(line) = <<>>
    THEN [err |-> "ValueError", name |-> "", vals |-> <<>>, flags |-> <<>>]
    ELSE load_line_val_parsed(StripLower(SplitColon(line)[1]),
                              parse_fields(SplitFields(SplitColon(line)[2]),
                                           <<>>, <<>>))

\* LogMod.load_line_uncert(line)
load_line_uncert(line) == parse_fields(SplitFields(line), <<>>, <<>>)

\* LogMod(line_val, line_uncert): [err, mod]
LogMod_loaded(v, u) ==
    IF v.err # "" THEN [err |-> v.err, mod |-> None]
    ELSE IF u.err # "" THEN [err |-> u.err, mod |-> None]
    ELSE IF ~(Len(v.vals) = Len(u.vals) /\ Len(u.vals) = Len(v.flags))
         THEN [err |-> "Exception", mod |-> None]
    ELSE [err |-> "", mod |-> [name |-> v.name, vals |-> v.vals,
                               uncerts |-> u.vals, flags |-> v.flags]]

LogMod(line_val, line_uncert) ==
    LogMod_loaded(load_line_val(line_val), load_line_uncert(line_uncert))

\* the loop of FitLog.parse_pars_lines over the pairs from the i-th on
RECURSIVE parse_pars_pairs(_, _)

parse_pars_pair(log, i, m) ==
    IF m.err # "" THEN [log |-> log, err |-> m.err]
    ELSE parse_pars_pairs(
            [log EXCEPT !.mods_pars = Append(log.mods_pars, m.mod)], i + 1)

parse_pars_pairs(log, i) ==
    IF 2 * i > Len(log.lines_pars) THEN [log |-> log, err |-> ""]
    ELSE parse_pars_pair(log, i,
            LogMod(log.lines_pars[2 * i - 1], log.lines_pars[2 * i]))

\* FitLog.parse_pars_lines(): [log, err]
FitLog_parse_pars_lines(log) ==
    IF Len(log.lines_pars) % 2 # 0 THEN [log |-> log, err |-> "AssertionError"]
    ELSE parse_pars_pairs(log, 1)

\* FitLogs.parse_pars_lines(): the logs from the i-th on
RECURSIVE FitLogs_parse_from(_, _)

FitLogs_parse_log(logs, i, w) ==
    IF w.err # "" THEN LG([logs EXCEPT ![i] = w.log], w.err, PNone)
    ELSE FitLogs_parse_from([logs EXCEPT ![i] = w.log], i + 1)

FitLogs_parse_from(logs, i) ==
    IF i > Len(logs) THEN LG(logs, "", PNone)
    ELSE FitLogs_parse_log(logs, i, FitLog_parse_pars_lines(logs[i]))

FitLogs_parse_pars_lines(logs) == FitLogs_parse_from(logs, 1)

\* the loops of load_file.  bound tells whether the local name `log` is
\* bound, which it is from the first 'Input image' of this call on: the log
\* it names is then the last of the list.
RECURSIVE load_found(_, _, _)
RECURSIVE load_log_lines(_, _, _)

SetLast(logs, log) == [logs EXCEPT ![Len(logs)] = log]

load_found_set(logs, found, w) ==
    IF w.err # "" THEN [logs |-> logs, err |-> w.err, bound |-> TRUE]
    ELSE load_found(SetLast(logs, w.log), Tail(found), TRUE)

\* for k, val in found: a new log at 'Input image', then
\* log.set_prop_fromlog(k, val)
load_found(logs, found, bound) ==
    IF found = <<>> THEN [logs |-> logs, err |-> "", bound |-> bound]
    ELSE IF Head(found)[1] = "Input image"
         THEN load_found_set(Append(logs, NewFitLog), found,
                set_prop_fromlog(NewFitLog, Head(found)[1], Head(found)[2]))
    ELSE IF ~bound
         THEN [logs |-> logs, err |-> "UnboundLocalError", bound |-> bound]
    ELSE load_found_set(logs, found,
            set_prop_fromlog(logs[Len(logs)], Head(found)[1], Head(found)[2]))

load_log_next(w, lines) ==
    IF w.err # "" THEN LG(w.logs, w.err, PNone)
    ELSE load_log_lines(w.logs, Tail(lines), w.bound)

\* log.add_pars_line(line)
add_pars_line(logs, line) ==
    SetLast(logs, [logs[Len(logs)] EXCEPT !.lines_pars = Append(@, line)])

load_log_lines(logs, lines, bound) ==
    IF lines = <<>> THEN LG(logs, "", PNone)
    ELSE IF Head(lines) = "" \/ Head(lines) = "----------"
         THEN load_log_lines(logs, Tail(lines), bound)
    ELSE IF ptn_files(Head(lines)) # <<>>
         THEN load_log_next(load_found(logs, ptn_files(Head(lines)), bound),
                            lines)
    ELSE IF ptn_chisqs(Head(lines)) # <<>>
         THEN load_log_next(load_found(logs, ptn_chisqs(Head(lines)), bound),
                            lines)
    ELSE IF ~bound THEN LG(logs, "UnboundLocalError", PNone)
    ELSE load_log_lines(add_pars_line(logs, Head(lines)), Tail(lines), bound)

FitLogs_load_parse(w, parse_pars) ==
    IF w.err # "" \/ ~parse_pars THEN w ELSE FitLogs_parse_pars_lines(w.logs)

\* FitLogs.load_file(path, parse_pars) of a file with the given lines
FitLogs_load_file(logs, lines, parse_pars) ==
    FitLogs_load_parse(load_log_lines(logs, lines, FALSE), parse_pars)

\* the places of the logs whose files are those asked for
RECURSIVE MatchingLogs(_, _, _, _)
MatchingLogs(logs, result, init, i) ==
    IF i > Len(logs) THEN <<>>
    ELSE IF /\ result.t # "none" => logs[i].result_file = result.s
            /\ init.t # "none" => logs[i].init_file = init.s
         THEN <<i>> \o MatchingLogs(logs, result, init, i + 1)
    ELSE MatchingLogs(logs, result, init, i + 1)

\* the index the string stands for
index_of_str(index) ==
    IF index.s \in {"last", "newest"} THEN PInt(-1) ELSE PInt(0)

\* a list of logs, and one log
LogList(places) == [t |-> "list", places |-> places]
OneLog(place) == [t |-> "log", place |-> place]

\* from `# get logs` on
get_logs_selected(logs, found, index, strip) ==
    IF index.t = "none"
    THEN IF strip /\ Len(found) = 1 THEN LG(logs, "", OneLog(found[1]))
         ELSE LG(logs, "", LogList(found))
    ELSE IF ListIndex(Len(found), index.n) = 0 THEN LG(logs, "IndexError", PNone)
    ELSE LG(logs, "", OneLog(found[ListIndex(Len(found), index.n)]))

\* FitLogs.get_logs_by_filename(result, init, index, strip)
get_logs_by_filename(logs, result, init, index, strip) ==
    IF result.t = "none" /\ init.t = "none" THEN LG(logs, "AssertionError", PNone)
    ELSE IF is_str_type(index)
         /\ index.s \notin {"all", "last", "first", "newest", "oldest"}
         THEN LG(logs, "AssertionError", PNone)
    ELSE get_logs_selected(logs, MatchingLogs(logs, result, init, 1),
            IF is_str_type(index) THEN index_of_str(index) ELSE index, strip)

(***************************************************************************)
(* SpecTrans: a model record is built by assignments to its fitting        *)
(* parameters, then transformed up to MaxHops times, each transform taking *)
(* the result of the one before.                                           *)
(***************************************************************************)
MaxHops == 2

\* the number in the name of a fitting parameter key
KeyNum(k) ==
    CASE k = "1" -> 1 [] k = "2" -> 2 [] k = "3" -> 3 [] k = "4" -> 4
      [] k = "5" -> 5 [] k = "6" -> 6 [] k = "7" -> 7 [] k = "8" -> 8
      [] k = "9" -> 9 [] k = "10" -> 10

\* the values assigned to key k: a free value, a fixed value with an
\* uncertainty, a value with state -1, and the empty string
ParChoices == {"free", "fixed", "minus", "empty", "unset"}

ParInput(ch, k) ==
    CASE ch = "free"  -> PTup(<<PInt(KeyNum(k) + 1), PInt(FREE)>>)
      [] ch = "fixed" -> PTup(<<PFloat(Q(KeyNum(k), 2)), PInt(FREEZE),
                                PFloat(Q(1, 2))>>)
      [] ch = "minus" -> PTup(<<PInt(KeyNum(k) + 2), PInt(-1)>>)
      [] ch = "empty" -> PStr("")

\* m.<k> = ParInput(sel[k], k) for the keys in turn
RECURSIVE BuildModel(_, _, _, _)

BuildModel_next(w, keys, sel) == BuildModel(w.heap, w.rec, Tail(keys), sel)

BuildModel(h, r, keys, sel) ==
    IF keys = <<>> THEN OC(h, r, "", PNone)
    ELSE IF sel[Head(keys)] = "unset" THEN BuildModel(h, r, Tail(keys), sel)
    ELSE BuildModel_next(
            set_prop(h, r, Head(keys), ParInput(sel[Head(keys)], Head(keys))),
            keys, sel)

ModvarKeys == {"1", "2", "3", "4", "5", "6", "7", "8", "9", "10"}

\* models with a transform, whose keys 4, 5 and 9 are varied one by one
TransMods == {"sersic", "expdisk", "edgedisk", "devauc"}

Selection(base, k4, k5, k9) ==
    [k \in ModvarKeys |->
        CASE k = "4" -> k4 [] k = "5" -> k5 [] k = "9" -> k9 [] OTHER -> base]

Selections(c) ==
    {Selection(base, k4, k5, k9) :
        base \in {"free", "fixed", "unset"},
        k4 \in IF c \in TransMods THEN ParChoices ELSE {"free"},
        k5 \in IF c \in {"sersic", "edgedisk"} THEN ParChoices ELSE {"fixed"},
        k9 \in IF c \in TransMods THEN ParChoices ELSE {"unset"}}

\* the names asked of mod_trans_to
TargetNames == {"sersic", "expdisk", "edgedisk", "devauc", "sky", "psf", "nomodel"}

KwChoices == {<<>>, [n_free |-> TRUE], [warn |-> FALSE]}

NoCall == [hist |-> <<>>, err |-> "", ret |-> PNone, before |-> None]

\* the state once the model b.rec is built
Built(b) ==
    /\ heap = b.heap
    /\ cur = b.rec
    /\ orig = [rec |-> b.rec, heap |-> b.heap]
    /\ other = None
    /\ call = NoCall
    /\ graph = DeclaredEdges
    /\ bfs = None

InitTrans ==
    /\ classes = ClassTable
    /\ \E c \in ModNames : \E sel \in Selections(c) :
          Built(BuildModel(ExampleHeap, NewRecord(c), get_all_modvars(c), sel))

\* the outcome r of a transform of cur: the result becomes cur, the source
\* as the call left it becomes other
Transformed(r, op, mod, kw) ==
    /\ heap' = r.heap
    /\ cur' = IF r.err = "" THEN r.ret ELSE r.rec
    /\ other' = r.rec
    /\ call' = [hist |-> Append(call.hist, [op |-> op, arg |-> mod, kw |-> kw]),
                err |-> r.err, ret |-> r.ret,
                before |-> [rec |-> cur, heap |-> heap]]
    /\ UNCHANGED <<classes, orig, graph, bfs>>

ModTransTo(mod, kw) ==
    /\ call.err = ""
    /\ Len(call.hist) < MaxHops
    /\ Transformed(mod_trans_to(heap, cur, mod, kw, graph), "mod_trans_to", mod, kw)

\* cur.to_<mod>(**kw), a method the class of cur declares
DirectTrans(mod, kw) ==
    /\ call.err = ""
    /\ Len(call.hist) < MaxHops
    /\ has_direct_trans(graph, cur.cls, mod)
    /\ Transformed(ApplyEdge(heap, cur, <<cur.cls, mod>>, kw), "to", mod, kw)

NextTrans ==
    \/ \E mod \in TargetNames : \E kw \in KwChoices : ModTransTo(mod, kw)
    \/ \E mod \in TransMods : \E kw \in KwChoices : DirectTrans(mod, kw)

SpecTrans == InitTrans /\ [][NextTrans]_vars

(***************************************************************************)
(* SpecGraph: the path search of mod_trans_to over the graphs of direct    *)
(* transforms that model classes can declare among GraphNodes.             *)
(***************************************************************************)
MaxEdges == 4

\* the registered names the to_* methods are declared among
GraphNodes == {"sersic", "sky", "expdisk", "edgedisk"}

GraphEdges == {e \in GraphNodes \X GraphNodes : e[1] # e[2]}

Graphs == {g \in SUBSET GraphEdges : Cardinality(g) <= MaxEdges}

InitGraph ==
    /\ classes = ClassTable
    /\ heap = ExampleHeap
    /\ cur = None
    /\ orig = None
    /\ other = None
    /\ call = NoCall
    /\ graph \in Graphs
    /\ bfs = None

\* the transforms mod_trans_to(mod) settles on for a model of type mod_now
FindPath(mod_now, mod) ==
    /\ bfs = None
    /\ bfs' = [from |-> mod_now, to |-> mod,
               found |-> SearchPath(graph, mod_now, mod)]
    /\ UNCHANGED <<classes, heap, cur, orig, other, call, graph>>

NextGraph ==
    \E mod_now \in GraphNodes : \E mod \in GraphNodes \cup {"nomodel"} :
        FindPath(mod_now, mod)

SpecGraph == InitGraph /\ [][NextGraph]_vars

(***************************************************************************)
(* SpecSearch: the loop of the path search, turn by turn, over the graphs  *)
(* of SpecGraph.  bfs holds the source, the target and the variables of    *)
(* the loop.  The loop runs in the caller's thread and nothing holds it    *)
(* up, so a turn that can be taken is taken: weak fairness of SearchTurn.  *)
(***************************************************************************)
\* mod_trans_to(mod) on a model of type mod_now comes to `while tovisit`
SearchBegin(mod_now, mod) ==
    /\ bfs = None
    /\ ~has_direct_trans(graph, mod_now, mod)
    /\ to_mod(graph, mod)
    /\ bfs' = [from |-> mod_now, to |-> mod, run |-> SearchStart(mod_now)]
    /\ UNCHANGED <<classes, heap, cur, orig, other, call, graph>>

\* one turn of the loop
SearchTurn ==
    /\ bfs # None
    /\ SearchRunning(bfs.run)
    /\ bfs' = [bfs EXCEPT !.run = SearchStep(graph, bfs.to, bfs.run)]
    /\ UNCHANGED <<classes, heap, cur, orig, other, call, graph>>

NextSearch ==
    \/ \E mod_now \in GraphNodes : \E mod \in GraphNodes :
          SearchBegin(mod_now, mod)
    \/ SearchTurn

SpecSearch == InitGraph /\ [][NextSearch]_vars /\ WF_vars(SearchTurn)

(***************************************************************************)
(* SpecRec: a Header or a model record is built by assignments, then up to *)
(* MaxCalls calls of the record interface are made on it or on its copy.   *)
(***************************************************************************)
MaxCalls == 2

RecClasses == {"header", "sersic", "sky"}

\* names the calls are made with: keys, aliases, aliases of another class
\* and a name no class knows
RecNames(c) ==
    IF c = "header" THEN {"P", "mod", "O", "K", "H", "A", "x0", "bogus"}
    ELSE {"1", "x0", "3", "n", "bkg", "Z", "rs", "bogus"}

\* values the calls assign
RecValues(c) ==
    IF c = "header"
    THEN {PStr("opt"), PStr("2"), PStr("both"), PStr("bad"),
          PStr("10 20 1 0"), PTup(<<PFloat(Q(1, 2)), PInt(2)>>)}
    ELSE {PStr("3 1"), PStr(""), PInt(5), PStr("10 20 1 0"), PStr("x"),
          PTup(<<PFloat(Q(1, 2)), PInt(0)>>)}

\* the assignments a record starts from
RecSamples(c) ==
    CASE c = "header" ->
            {<<>>,
             << <<"H", PStr("10 20 1 0")>>, <<"mod", PStr("opt")>>,
                <<"K", PTup(<<PFloat(Q(1, 2)), PInt(2)>>)>> >>}
      [] c = "sersic" ->
            {<<>>,
             << <<"1", PStr("10 20 1 0")>>, <<"mag", PStr("4 0 0.5")>> >>,
             << <<"x0", PStr("3 1")>>, <<"n", PStr("")>> >>}
      [] OTHER ->
            {<<>>, << <<"bkg", PStr("2 free")>> >>}

\* r.set_prop(name, val) for the pairs in turn
RECURSIVE BuildRecord(_, _, _)

BuildRecord_next(w, sets) == BuildRecord(w.heap, w.rec, Tail(sets))

BuildRecord(h, r, sets) ==
    IF sets = <<>> THEN OC(h, r, "", PNone)
    ELSE BuildRecord_next(set_prop(h, r, Head(sets)[1], Head(sets)[2]), sets)

InitRec ==
    /\ classes = ClassTable
    /\ \E c \in RecClasses : \E sets \in RecSamples(c) :
          Built(BuildRecord(ExampleHeap, NewRecord(c), sets))

\* the outcome r of a call on cur
Returned(r, op, arg, val) ==
    /\ heap' = r.heap
    /\ cur' = r.rec
    /\ call' = [hist |-> Append(call.hist, [op |-> op, arg |-> arg, val |-> val]),
                err |-> r.err, ret |-> r.ret,
                before |-> [rec |-> cur, heap |-> heap]]
    /\ UNCHANGED <<classes, orig, other, graph, bfs>>

SetProp(name, val) ==
    /\ Len(call.hist) < MaxCalls
    /\ Returned(set_prop(heap, cur, name, val), "set_prop", name, val)

GetVal(name) ==
    /\ Len(call.hist) < MaxCalls
    /\ Returned(get_val(heap, cur, name), "get_val", name, PNone)

Reset ==
    /\ Len(call.hist) < MaxCalls
    /\ Returned(OC(heap, reset(cur), "", PNone), "reset", "", PNone)

\* cur.copy(); the calls that follow are made on the copy (onCopy) or go on
\* on the record that was copied, and other is the record they are not made on
Copied(r, onCopy) ==
    /\ heap' = r.heap
    /\ cur' = IF r.err = "" /\ onCopy THEN r.ret ELSE r.rec
    /\ other' = IF r.err # "" THEN other ELSE IF onCopy THEN r.rec ELSE r.ret
    /\ call' = [hist |-> Append(call.hist,
                           [op |-> "copy", arg |-> "", val |-> PNone]),
                err |-> r.err, ret |-> r.ret,
                before |-> [rec |-> cur, heap |-> heap]]
    /\ UNCHANGED <<classes, orig, graph, bfs>>

Copy(onCopy) ==
    /\ Len(call.hist) < MaxCalls
    /\ Copied(copy(heap, cur), onCopy)

\* cur.<key>.update(val) on the Parameter stored under key
Updated(u) == OC(u.heap, cur, u.err, PNone)

Update(key, val) ==
    /\ Len(call.hist) < MaxCalls
    /\ key \in DOMAIN cur.pars
    /\ cur.pars[key].t = "par"
    /\ Returned(Updated(update(heap, cur.pars[key].ref, <<val>>)),
                "update", key, val)

NextRec ==
    \/ \E name \in RecNames(cur.cls) : \E val \in RecValues(cur.cls) :
          SetProp(name, val)
    \/ \E name \in RecNames(cur.cls) : GetVal(name)
    \/ Reset
    \/ \E onCopy \in BOOLEAN : Copy(onCopy)
    \/ \E key \in {"1", "3", "5"} : \E val \in {PStr("3 1"), PInt(5), PStr("x")} :
          Update(key, val)

SpecRec == InitRec /\ [][NextRec]_vars

(***************************************************************************)
(* SpecSet: a model record is built as in SpecRec, then up to MaxCalls     *)
(* assignments are made to its fitting parameters, by set_prop and by      *)
(* update of a stored Parameter, with values whose first field, or whose   *)
(* second or third, cannot be taken.                                       *)
(***************************************************************************)
SetNames == {"1", "x0", "mag", "n", "bkg"}

SetValues ==
    {PStr("3 1"), PStr("x"), PStr("2 x"), PStr("10 20 1 0"), PStr("1 2 x 0"),
     PTup(<<PInt(5), PInt(1), PStr("x")>>)}

InitSet ==
    /\ classes = ClassTable
    /\ \E c \in {"sersic", "sky"} : \E sets \in RecSamples(c) :
          Built(BuildRecord(ExampleHeap, NewRecord(c), sets))

NextSet ==
    \/ \E name \in SetNames : \E val \in SetValues : SetProp(name, val)
    \/ \E key \in {"1", "2", "3"} : \E val \in SetValues : Update(key, val)

SpecSet == InitSet /\ [][NextSet]_vars

(***************************************************************************)
(* SpecPar: a Parameter is constructed, then up to MaxParCalls calls in    *)
(* all are made on it.  A second Parameter, with or without a value, is    *)
(* there from the start to be handed over as an argument.                  *)
(***************************************************************************)
MaxParCalls == 3

\* the Parameter handed over as an argument
OperandRef == Len(ExampleHeap) + 1

Operands == {PStr("4 0 0.5"), PStr("")}

\* argument lists of Parameter(...) and update(...)
ParArgs ==
    {<<>>, <<PInt(3)>>, <<PStr("3 1")>>, <<PStr("2 free")>>,
     <<PStr("4 0 0.5")>>, <<PStr("")>>, <<PStr("x")>>, <<PStr("10 20 1 0")>>,
     <<PFloat(Q(1, 2)), PInt(2)>>, <<PInt(3), PStr("-1")>>,
     <<PInt(5), PInt(1), PFloat(Q(1, 2))>>,
     <<PInt(1), PInt(2), PInt(3), PInt(4)>>,
     <<PTup(<<PInt(5), PInt(1)>>)>>, <<PTup(<<>>)>>,
     <<PPar(OperandRef)>>}

\* what a state is set to
StateInputs ==
    {PInt(0), PInt(1), PInt(2), PInt(-1), PStr("free"), PStr("freeze"),
     PStr("1"), PStr("3"), PStr("x"), PFloat(Q(1, 2))}

\* operands of += and *=
OpInputs ==
    {PInt(2), PFloat(Q(1, 2)), PStr("3"), PStr("3 1"), PStr("x"), PStr(""),
     PTup(<<PInt(2)>>), PPar(OperandRef)}

InitPar ==
    /\ classes = ClassTable
    /\ \E v \in Operands : heap = NewParameter(ExampleHeap, v).heap
    /\ cur = None
    /\ orig = None
    /\ other = PPar(OperandRef)
    /\ call = NoCall
    /\ graph = DeclaredEdges
    /\ bfs = None

\* the outcome r of a call on the Parameter cur
ParReturned(r, op, arg) ==
    /\ heap' = r.heap
    /\ call' = [hist |-> Append(call.hist, [op |-> op, arg |-> arg]),
                err |-> r.err, ret |-> cur,
                before |-> [rec |-> cur, heap |-> heap]]
    /\ UNCHANGED <<classes, cur, orig, other, graph, bfs>>

\* p = Parameter(*args)
ParNewMade(n, args) ==
    /\ heap' = n.heap
    /\ cur' = IF n.err = "" THEN PPar(n.ref) ELSE None
    /\ call' = [hist |-> Append(call.hist, [op |-> "new", arg |-> args]),
                err |-> n.err, ret |-> PNone,
                before |-> [rec |-> cur, heap |-> heap]]
    /\ UNCHANGED <<classes, orig, other, graph, bfs>>

ParNew(args) ==
    /\ cur = None
    /\ Len(call.hist) < MaxParCalls
    /\ ParNewMade(NewParameter_args(heap, args), args)

ParUpdate(args) ==
    /\ cur # None
    /\ Len(call.hist) < MaxParCalls
    /\ ParReturned(update(heap, cur.ref, args), "update", args)

ParSetState(v) ==
    /\ cur # None
    /\ Len(call.hist) < MaxParCalls
    /\ ParReturned(set_state(heap, cur.ref, v), "set_state", v)

ParFree ==
    /\ cur # None
    /\ Len(call.hist) < MaxParCalls
    /\ ParReturned(free(heap, cur.ref), "free", PNone)

ParFreeze ==
    /\ cur # None
    /\ Len(call.hist) < MaxParCalls
    /\ ParReturned(freeze(heap, cur.ref), "freeze", PNone)

ParSetAttr(prop, v) ==
    /\ cur # None
    /\ Len(call.hist) < MaxParCalls
    /\ ParReturned(Parameter_setattr(heap, cur.ref, prop, v),
                   "setattr", <<prop, v>>)

ParIAdd(v) ==
    /\ cur # None
    /\ Len(call.hist) < MaxParCalls
    /\ ParReturned(iadd(heap, cur.ref, v), "iadd", v)

ParIMul(v) ==
    /\ cur # None
    /\ Len(call.hist) < MaxParCalls
    /\ ParReturned(imul_op(heap, cur.ref, v), "imul", v)

NextPar ==
    \/ \E args \in ParArgs : ParNew(args)
    \/ \E args \in ParArgs : ParUpdate(args)
    \/ \E v \in StateInputs : ParSetState(v)
    \/ ParFree
    \/ ParFreeze
    \/ \E prop \in {"val", "state", "uncert", "foo"} :
          \E v \in {PInt(2), PStr("x"), PNone} : ParSetAttr(prop, v)
    \/ \E v \in OpInputs : ParIAdd(v)
    \/ \E v \in OpInputs : ParIMul(v)

SpecPar == InitPar /\ [][NextPar]_vars

(***************************************************************************)
(* SpecCons: rules are added to an empty Constraints collection, from      *)
(* lines and from arguments, up to MaxConsCalls calls; a rule of the       *)
(* collection may be written as a line and the line read back.             *)
(***************************************************************************)
MaxConsCalls == 2

\* lines handed to add_cons: one of each grammar, and lines of none
ConsLines ==
    {<< <<Digits(1), Char("_"), Digits(2)>>, "x", Word("offset") >>,
     << <<Digits(1), Char("_"), Digits(2), Char("_"), Digits(3)>>, "re",
        Word("ratio"), Word("#") >>,
     << <<Digits(1)>>, "n", Num(Q(1, 2)), Word("to"), Num(Q(3, 1)) >>,
     << <<Digits(1)>>, "x0", Num(Q(-1, 1)), Num(Q(1, 1)) >>,
     << <<Digits(1), Char("-"), Digits(2)>>, "mag", Num(Q(-1, 1)), Num(Q(1, 1)) >>,
     << <<Digits(1), Char("/"), Digits(2)>>, "ba", Num(Q(1, 2)), Num(Q(3, 1)) >>,
     << <<Digits(2)>>, "3", Num(Q(0, 1)), Num(Q(1, 1)) >>,
     << <<Digits(1)>>, "x", Word("offset") >>,
     << <<Digits(1), Char("_"), Digits(2)>>, "foo", Word("offset") >>,
     << <<Digits(1), Char("_"), Digits(2)>>, "x", Word("bogus") >>,
     << <<Digits(1), Char("_"), Digits(2)>>, "x" >>,
     << <<Char("#")>> >>,
     <<>>}

ConsComps == {<<>>, <<1>>, <<1, 2>>}

ConsPars == {PStr("x"), PStr("ba"), PStr("foo"), PInt(3)}

ConsTypes == types_cons_valid \cup {"hard_diff", "bogus"}

\* the range argument: absent, two numbers, one number, none
ConsRanges ==
    {PNone, PTup(<<Q(-1, 1), Q(1, 1)>>), PTup(<<Q(1, 3), Q(1, 1)>>),
     PTup(<<Q(0, 1), Q(1234567, 1)>>), PTup(<<Q(1, 1)>>), PTup(<<>>)}

InitCons ==
    /\ classes = ClassTable
    /\ heap = ExampleHeap
    /\ cur = [cls |-> "constraints", rules_cons |-> <<>>]
    /\ orig = None
    /\ other = None
    /\ call = NoCall
    /\ graph = DeclaredEdges
    /\ bfs = None

\* the outcome a of add_cons(*args) on cur
ConsAdded(a, args) ==
    /\ cur' = [cur EXCEPT !.rules_cons = a.rules]
    /\ call' = [hist |-> Append(call.hist, [op |-> "add_cons", arg |-> args]),
                err |-> a.err, ret |-> PNone,
                before |-> [rec |-> cur, heap |-> heap]]
    /\ UNCHANGED <<classes, heap, orig, other, graph, bfs>>

\* add_cons(line)
AddConsLine(line) ==
    /\ Len(call.hist) < MaxConsCalls
    /\ ConsAdded(add_cons(cur.rules_cons, <<line>>), <<line>>)

\* add_cons(comps, par, type_cons[, range_cons])
AddConsArgs(comps, par, t, rng) ==
    /\ Len(call.hist) < MaxConsCalls
    /\ ConsAdded(add_cons(cur.rules_cons,
                          IF rng.t = "none" THEN <<comps, par, t>>
                          ELSE <<comps, par, t, rng>>),
                 <<comps, par, t, rng>>)

\* ConsRule(str(rule)) for the i-th rule of the collection
Reparse(i) ==
    /\ other = None
    /\ i \in 1..Len(cur.rules_cons)
    /\ other' = [rule |-> cur.rules_cons[i],
                 line |-> ConsRule_str(cur.rules_cons[i]),
                 back |-> ConsRule(<<ConsRule_str(cur.rules_cons[i])>>)]
    /\ UNCHANGED <<classes, heap, cur, orig, call, graph, bfs>>

NextCons ==
    \/ \E line \in ConsLines : AddConsLine(line)
    \/ \E comps \in ConsComps : \E par \in ConsPars : \E t \in ConsTypes :
          \E rng \in ConsRanges : AddConsArgs(comps, par, t, rng)
    \/ \E i \in 1..MaxConsCalls : Reparse(i)

SpecCons == InitCons /\ [][NextCons]_vars

(***************************************************************************)
(* SpecDoc: a GalFit document and a file on disk.  The file is loaded, the *)
(* document is written as text, a written text is loaded back, components  *)
(* are duplicated, up to MaxDocCalls calls.  orig is the file, cur the     *)
(* document, other the texts written so far.                               *)
(***************************************************************************)
MaxDocCalls == 4

Line(k, s) == [key |-> k, val |-> PStr(s)]

\* the header lines of a file that sets every required key
HeaderLines ==
    <<Line("B", "out.fits"), Line("H", "1 10 1 10"), Line("I", "5 5")>>

\* component blocks: a complete sersic; one with a value left out, a header
\* line in between and a key sersic does not declare; a sky; an expdisk
DocBlocks ==
    {<<Line("0", "sersic"), Line("1", "10 20 1 0"), Line("3", "4 0 0.5"),
       Line("4", "3 1"), Line("5", "4"), Line("9", "0.5"),
       Line("10", "3 1")>>,
     <<Line("0", "SERSIC"), Line("mag", ""), Line("J", "20"),
       Line("6", "3 1"), Line("Z", "1")>>,
     <<Line("0", "Sky"), Line("1", "0.00099996 1")>>,
     <<Line("0", "expdisk"), Line("3", "3 1")>>,
     <<>>}

\* parameter lines ahead of the header
DocPrefixes == {<<>>, <<Line("3", "3 1")>>}

Files ==
    {pre \o hdr \o b1 \o b2 :
        pre \in DocPrefixes, hdr \in {<<>>, HeaderLines},
        b1 \in DocBlocks, b2 \in DocBlocks}

\* the indexes handed to dup_comp
DupIndexes == -3..2

InitDoc ==
    /\ classes = ClassTable
    /\ heap = ExampleHeap
    /\ cur = NewGalFit
    /\ orig \in Files
    /\ other = <<>>
    /\ call = NoCall
    /\ graph = DeclaredEdges
    /\ bfs = None

\* the outcome w of a call on the document
DocDone(w, op, arg) ==
    /\ heap' = w.heap
    /\ cur' = w.doc
    /\ call' = [hist |-> Append(call.hist,
                                [op |-> op, arg |-> arg, err |-> w.err]),
                err |-> w.err, ret |-> PNone,
                before |-> [rec |-> cur, heap |-> heap]]
    /\ UNCHANGED <<classes, orig, graph, bfs>>

\* load_file(fname) of the file on disk
LoadFile ==
    /\ Len(call.hist) < MaxDocCalls
    /\ DocDone(GalFit_load_file(heap, cur, orig), "load_file", PNone)
    /\ UNCHANGED other

\* str(self), the text kept
DocWritten(s) ==
    /\ DocDone(s, "str", PNone)
    /\ other' = IF s.err # "" THEN other
                ELSE Append(other, [header |-> s.header, blocks |-> s.blocks])

Str ==
    /\ Len(call.hist) < MaxDocCalls
    /\ DocWritten(GalFit_str(heap, cur))

\* load_file of the text written last
LoadWritten ==
    /\ Len(call.hist) < MaxDocCalls
    /\ other # <<>>
    /\ DocDone(GalFit_load_file(heap, cur, FileOf(other[Len(other)])),
               "load_text", PNone)
    /\ UNCHANGED other

\* dup_comp(index)
DupComp(index) ==
    /\ Len(call.hist) < MaxDocCalls
    /\ DocDone(GalFit_dup_comp(heap, cur, index), "dup_comp", index)
    /\ UNCHANGED other

NextDoc ==
    \/ LoadFile
    \/ Str
    \/ LoadWritten
    \/ \E index \in DupIndexes : DupComp(index)

SpecDoc == InitDoc /\ [][NextDoc]_vars

(***************************************************************************)
(* SpecComp: a document constructed from a file, GalFit(fname), and the    *)
(* calls that act on its components: free and freeze of all or some of    *)
(* them, and the transformation of one, up to MaxCompCalls calls.          *)
(***************************************************************************)
MaxCompCalls == 2

\* GalFit(fname) of the file f
NewGalFit_file(f) == GalFit_load_file(ExampleHeap, NewGalFit, f)

\* the files a document can be constructed from
CompFiles == {f \in Files : NewGalFit_file(f).err = ""}

\* the comps argument of free and freeze: all, or a list of indexes
CompSelections == {None, <<0>>, <<1>>, <<-1>>, <<0, 1>>, <<1, 1>>, <<2>>}

CompIndexes == -2..2

CompTargets == {"sersic", "expdisk", "edgedisk", "devauc", "sky"}

InitComp ==
    /\ classes = ClassTable
    /\ orig \in CompFiles
    /\ heap = NewGalFit_file(orig).heap
    /\ cur = NewGalFit_file(orig).doc
    /\ other = None
    /\ call = NoCall
    /\ graph = DeclaredEdges
    /\ bfs = None

\* the outcome w of a call on the document
CompDone(w, op, arg, ret) ==
    /\ heap' = w.heap
    /\ cur' = w.doc
    /\ call' = [hist |-> Append(call.hist,
                                [op |-> op, arg |-> arg, err |-> w.err]),
                err |-> w.err, ret |-> ret,
                before |-> [rec |-> cur, heap |-> heap]]
    /\ UNCHANGED <<classes, orig, other, graph, bfs>>

\* free(comps)
Free(comps) ==
    /\ Len(call.hist) < MaxCompCalls
    /\ CompDone(GalFit_free(heap, cur, comps), "free", comps, PNone)

\* freeze(comps)
Freeze(comps) ==
    /\ Len(call.hist) < MaxCompCalls
    /\ CompDone(GalFit_freeze(heap, cur, comps), "freeze", comps, PNone)

TransCompDone(w, arg) == CompDone(w, "trans_comp_to", arg, w.ret)

\* trans_comp_to(index, mod, inplace=inplace)
TransCompTo(index, mod, inplace) ==
    /\ Len(call.hist) < MaxCompCalls
    /\ TransCompDone(GalFit_trans_comp_to(heap, cur, index, mod, TRUE,
                                          inplace, graph),
                     [index |-> index, mod |-> mod, inplace |-> inplace])

NextComp ==
    \/ \E comps \in CompSelections : Free(comps)
    \/ \E comps \in CompSelections : Freeze(comps)
    \/ \E index \in CompIndexes : \E mod \in CompTargets :
          \E inplace \in BOOLEAN : TransCompTo(index, mod, inplace)

SpecComp == InitComp /\ [][NextComp]_vars

(***************************************************************************)
(* SpecDir: a new document, GalFit(); file parameters of its header are    *)
(* set and its working directory is changed, up to MaxDirCalls calls.      *)
(***************************************************************************)
MaxDirCalls == 3

\* the parameters set, by key or alias, and the values given to them
DirPars == {"A", "B", "D", "psf", "G"}

DirValues == {PStr("none"), Path(<<"img.fits">>), Path(<<"data", "psf.fits">>)}

\* the dest argument of chdir_to
DirDests == {Path(<<"run">>), Path(<<"data">>), Path(<<"data", "run">>), PInt(5)}

InitDir ==
    /\ classes = ClassTable
    /\ heap = ExampleHeap
    /\ cur = [header |-> NewRecord("header"), workdir |-> <<>>]
    /\ orig = None
    /\ other = None
    /\ call = NoCall
    /\ graph = DeclaredEdges
    /\ bfs = None

\* the outcome w of a call on the document
DirDone(w, op, arg) ==
    /\ heap' = w.heap
    /\ cur' = w.doc
    /\ call' = [hist |-> Append(call.hist,
                                [op |-> op, arg |-> arg, err |-> w.err]),
                err |-> w.err, ret |-> PNone,
                before |-> [rec |-> cur, heap |-> heap]]
    /\ UNCHANGED <<classes, orig, other, graph, bfs>>

HeaderSet(w) == DC(w.heap, [cur EXCEPT !.header = w.rec], w.err)

\* self.header.set_prop(par, val)
SetFilePar(par, val) ==
    /\ Len(call.hist) < MaxDirCalls
    /\ DirDone(HeaderSet(set_prop(heap, cur.header, par, val)), "set_prop",
               [par |-> par, val |-> val])

\* chdir_to(dest, keep_header=keep_header, skip_output=skip_output)
ChdirTo(dest, keep_header, skip_output) ==
    /\ Len(call.hist) < MaxDirCalls
    /\ DirDone(chdir_to(heap, cur, dest, keep_header, skip_output),
               "chdir_to",
               [dest |-> dest, keep_header |-> keep_header,
                skip_output |-> skip_output])

NextDir ==
    \/ \E par \in DirPars : \E val \in DirValues : SetFilePar(par, val)
    \/ \E dest \in DirDests : \E keep_header \in BOOLEAN :
          \E skip_output \in BOOLEAN : ChdirTo(dest, keep_header, skip_output)

SpecDir == InitDir /\ [][NextDir]_vars

(***************************************************************************)
(* SpecRun: a directory holding some of galfit.00, galfit.01, ..., and     *)
(* rungf called on it up to MaxRunCalls times.  cur is the directory.      *)
(***************************************************************************)
MaxRunCalls == 2

\* the highest number a file of the directory has at the start
MaxFileNo == 2

FileKinds == {"none", "doc", "part", "dir"}

\* what the galfit process may do
Processes ==
    [timeout : BOOLEAN, ecode : {0, 1}, offset : {0, 1, 2}]

InitRun ==
    /\ classes = ClassTable
    /\ heap = ExampleHeap
    /\ cur \in [0..MaxFileNo -> FileKinds]
    /\ orig = None
    /\ other = None
    /\ call = NoCall
    /\ graph = DeclaredEdges
    /\ bfs = None

\* the outcome w of rungf
RunDone(w, arg) ==
    /\ cur' = w.fs
    /\ call' = [hist |-> Append(call.hist,
                                [op |-> "rungf", arg |-> arg, err |-> w.err]),
                err |-> w.err, ret |-> w.ret,
                before |-> [rec |-> cur, heap |-> heap]]
    /\ other' = w.proc
    /\ UNCHANGED <<classes, heap, orig, graph, bfs>>

\* rungf(init, change), the process behaving as p
Rungf(init, change, p) ==
    /\ Len(call.hist) < MaxRunCalls
    /\ RunDone(rungf(cur, init, change, p),
               [init |-> init, change |-> change, p |-> p])

NextRun ==
    \E init \in 0..MaxFileNo : \E change \in BOOLEAN : \E p \in Processes :
        Rungf(init, change, p)

SpecRun == InitRun /\ [][NextRun]_vars

(***************************************************************************)
(* SpecLogs: a FitLogs created empty, then up to MaxLogCalls calls of      *)
(* load_file, parse_pars_lines and get_logs_by_filename.  cur is the list  *)
(* of logs.                                                                *)
(***************************************************************************)
MaxLogCalls == 2

\* the lines galfit writes for one run: its files, the parameter lines of
\* its components, the goodness of the fit
LogRun(init, result, pars) ==
    <<"", "----------",
      "Input image     : a.fits", init, result,
      "Output image    : out.fits", "">>
    \o pars
    \o <<" Chi^2 = 5,  ndof = 3", " Chi^2/nu = 0.5">>

SersicLines == <<"  sersic : ( 10, 20) 3 *5*", "          ( 0.5, 0.5) 0.5 0.5">>
SkyLines == <<"  sky    : [10, 20] 1 [0]", "          0.5 [0]">>

LogRuns ==
    {LogRun("Init. par. file : galfit.00", "Restart file    : galfit.01",
            SersicLines \o SkyLines),
     LogRun("Init. par. file : galfit.01", "Restart file    : galfit.02",
            SersicLines),
     LogRun("Init. par. file : galfit.00", "Restart file    : galfit.01", <<>>)}

\* fit.log files: one or two runs, a run whose uncertainties fall short, a
\* run with a line left over, and a file that starts amid a run
LogFiles ==
    LogRuns
    \cup {a \o b : a \in LogRuns, b \in LogRuns}
    \cup {LogRun("Init. par. file : galfit.00", "Restart file    : galfit.02",
                 <<SersicLines[1], "          0.5">>),
          LogRun("Init. par. file : galfit.00", "Restart file    : galfit.02",
                 <<SersicLines[1]>>),
          SkyLines}

LogNames == {PNone, PStr("galfit.01"), PStr("galfit.02")}
LogInits == {PNone, PStr("galfit.00")}
LogIndexes ==
    {PNone, PStr("all"), PStr("last"), PStr("first"), PStr("newest"),
     PStr("oldest"), PStr("x"), PInt(1), PInt(-1)}

InitLogs ==
    /\ classes = ClassTable
    /\ heap = ExampleHeap
    /\ cur = <<>>
    /\ orig = None
    /\ other = None
    /\ call = NoCall
    /\ graph = DeclaredEdges
    /\ bfs = None

\* the outcome w of a call
LogsDone(w, op, arg) ==
    /\ cur' = w.logs
    /\ call' = [hist |-> Append(call.hist,
                                [op |-> op, arg |-> arg, err |-> w.err]),
                err |-> w.err, ret |-> w.ret,
                before |-> [rec |-> cur, heap |-> heap]]
    /\ UNCHANGED <<classes, heap, orig, other, graph, bfs>>

\* load_file(path, parse_pars) of a file holding the given lines
LoadLog(lines, parse_pars) ==
    /\ Len(call.hist) < MaxLogCalls
    /\ LogsDone(FitLogs_load_file(cur, lines, parse_pars), "load_file",
                [lines |-> lines, parse_pars |-> parse_pars])

ParseParsLines ==
    /\ Len(call.hist) < MaxLogCalls
    /\ LogsDone(FitLogs_parse_pars_lines(cur), "parse_pars_lines", PNone)

GetLogsByFilename(result, init, index, strip) ==
    /\ Len(call.hist) < MaxLogCalls
    /\ LogsDone(get_logs_by_filename(cur, result, init, index, strip),
                "get_logs_by_filename",
                [result |-> result, init |-> init, index |-> index,
                 strip |-> strip])

NextLogs ==
    \/ \E lines \in LogFiles : \E parse_pars \in BOOLEAN :
          LoadLog(lines, parse_pars)
    \/ ParseParsLines
    \/ \E result \in LogNames : \E init \in LogInits :
       \E index \in LogIndexes : \E strip \in BOOLEAN :
          GetLogsByFilename(result, init, index, strip)

SpecLogs == InitLogs /\ [][NextLogs]_vars

(***************************************************************************)
(* What the properties speak of.                                           *)
(***************************************************************************)
\* the keys of record r that hold a Parameter, and the objects they hold
ParKeys(r) == {k \in DOMAIN r.pars : r.pars[k].t = "par"}

Refs(r) == {r.pars[k].ref : k \in ParKeys(r)}

\* val, state and uncert of the Parameter under key k of r
ParAt(h, r, k) == h[r.pars[k].ref]

\* what is read from key k of r: the fields of a Parameter, or the value
ValueAt(h, r, k) == IF r.pars[k].t = "par" THEN ParAt(h, r, k) ELSE r.pars[k]

\* every Parameter of r has a value
Valued(h, r) == \A k \in ParKeys(r) : ParAt(h, r, k).val # None

\* every fitting parameter of r's type is set
AllModvarsSet(r) ==
    \A i \in 1..Len(get_all_modvars(r.cls)) :
        get_all_modvars(r.cls)[i] \in DOMAIN r.pars

LastCall == call.hist[Len(call.hist)]

Called(op) == Len(call.hist) > 0 /\ LastCall.op = op

\* the model names reachable from those of S along edges of g
RECURSIVE ReachableFrom(_, _)
ReachableFrom(g, S) ==
    LET N == S \cup {e[2] : e \in {x \in g : x[1] \in S}}
    IN  IF N = S THEN S ELSE ReachableFrom(g, N)

(***************************************************************************)
(* Properties of the transforms, checked under SpecTrans.                  *)
(***************************************************************************)
\* C1: m.mod_trans_to(<name of m's own type>), with no keyword argument,
\* raises nothing and returns an independent copy of m: a record of the same
\* type with the same keys set, with the value, state and uncertainty of m's
\* Parameter under each, and sharing no Parameter object with m.
C1_SelfTransformIsCopy ==
    (/\ Called("mod_trans_to")
     /\ LastCall.arg = call.before.rec.cls
     /\ LastCall.kw = <<>>)
    => /\ call.err = ""
       /\ cur.cls = call.before.rec.cls
       /\ DOMAIN cur.pars = DOMAIN call.before.rec.pars
       /\ \A k \in ParKeys(call.before.rec) :
             /\ cur.pars[k].t = "par"
             /\ ParAt(heap, cur, k) = ParAt(call.before.heap, call.before.rec, k)
       /\ Refs(cur) \cap Refs(call.before.rec) = {}

\* C3: mod_trans_to(target) raises and returns no model whenever target is
\* not the source's own type and cannot be reached from it along the declared
\* direct transforms; a name that is no registered model is such a target.
C3_UnreachableTargetFails ==
    (/\ Called("mod_trans_to")
     /\ LastCall.arg # call.before.rec.cls
     /\ LastCall.arg \notin ReachableFrom(graph, {call.before.rec.cls}))
    => /\ call.err # ""
       /\ call.ret = PNone

\* C3 happens: after a transform that succeeded, a name outside the registry
\* was asked for and the call raised
C3_Witness ==
    /\ Len(call.hist) = 2
    /\ LastCall.op = "mod_trans_to"
    /\ LastCall.arg \notin ModNames
    /\ call.err = "Exception"
    /\ call.ret = PNone

\* C4: a Sersic with every fitting parameter set, transformed to expdisk and
\* the result back to sersic, gives a Sersic whose x, y and magnitude have
\* the value and state they had, and whose n is 1 and Fixed unless n_free
\* was asked for.
C4_SersicRoundTrip ==
    (/\ orig.rec.cls = "sersic"
     /\ AllModvarsSet(orig.rec)
     /\ Len(call.hist) >= 1
     /\ call.hist[1] = [op |-> "mod_trans_to", arg |-> "expdisk", kw |-> <<>>])
    => /\ Len(call.hist) = 1 => call.err = ""
       /\ (/\ Len(call.hist) = 2
           /\ call.hist[2].op = "mod_trans_to"
           /\ call.hist[2].arg = "sersic"
           /\ call.hist[2].kw \in {<<>>, [n_free |-> TRUE]})
          => /\ call.err = ""
             /\ cur.cls = "sersic"
             /\ \A k \in {"1", "2", "3"} :
                   /\ k \in ParKeys(cur)
                   /\ ParAt(heap, cur, k).val = ParAt(orig.heap, orig.rec, k).val
                   /\ ParAt(heap, cur, k).state = ParAt(orig.heap, orig.rec, k).state
             /\ "5" \in ParKeys(cur)
             /\ ParAt(heap, cur, "5").val = QInt(1)
             /\ call.hist[2].kw = <<>> => ParAt(heap, cur, "5").state = FREEZE

\* C5: with key '4' set on the source, Sersic.to_expdisk gives rs = re / 1.678
\* and Expdisk.to_sersic gives re = rs * 1.678, the state copied as it is.
C5_RadiusFactorBothWays ==
    (/\ Called("to")
     /\ LastCall.kw = <<>>
     /\ <<call.before.rec.cls, LastCall.arg>> \in
            {<<"sersic", "expdisk">>, <<"expdisk", "sersic">>}
     /\ "4" \in DOMAIN call.before.rec.pars
     /\ Valued(call.before.heap, call.before.rec))
    => /\ call.err = ""
       /\ "4" \in ParKeys(cur)
       /\ ParAt(heap, cur, "4").val =
             IF LastCall.arg = "expdisk"
             THEN QDiv(ParAt(call.before.heap, call.before.rec, "4").val,
                       Q(1678, 1000))
             ELSE QMul(ParAt(call.before.heap, call.before.rec, "4").val,
                       Q(1678, 1000))
       /\ ParAt(heap, cur, "4").state =
             ParAt(call.before.heap, call.before.rec, "4").state

\* C6: for an Expdisk e with rs and ba set, e.to_edgedisk() is an Edgedisk
\* whose key '5' has the value and state of e.rs and whose key '4' has the
\* value e.rs * e.ba and is free exactly when e.rs is free or e.ba is free.
C6_EdgediskFromExpdisk ==
    (/\ Called("to")
     /\ LastCall.kw = <<>>
     /\ LastCall.arg = "edgedisk"
     /\ call.before.rec.cls = "expdisk"
     /\ {"4", "9"} \subseteq DOMAIN call.before.rec.pars
     /\ Valued(call.before.heap, call.before.rec))
    => /\ call.err = ""
       /\ cur.cls = "edgedisk"
       /\ {"4", "5"} \subseteq ParKeys(cur)
       /\ ParAt(heap, cur, "5").val =
             ParAt(call.before.heap, call.before.rec, "4").val
       /\ ParAt(heap, cur, "5").state =
             ParAt(call.before.heap, call.before.rec, "4").state
       /\ ParAt(heap, cur, "4").val =
             QMul(ParAt(call.before.heap, call.before.rec, "4").val,
                  ParAt(call.before.heap, call.before.rec, "9").val)
       /\ is_free(ParAt(heap, cur, "4")) <=>
             \/ is_free(ParAt(call.before.heap, call.before.rec, "4"))
             \/ is_free(ParAt(call.before.heap, call.before.rec, "9"))

(***************************************************************************)
(* Properties of the path search, checked under SpecGraph.                 *)
(***************************************************************************)
\* the least number of edges of g from a model of S to b, counted from d
RECURSIVE HopsFrom(_, _, _, _)
HopsFrom(g, S, b, d) ==
    IF b \in S THEN d
    ELSE HopsFrom(g, S \cup {e[2] : e \in {x \in g : x[1] \in S}}, b, d + 1)

\* p is a chain of edges of g leading from a to b
IsPath(p, a, b, g) ==
    /\ Len(p) > 0
    /\ p[1][1] = a
    /\ p[Len(p)][2] = b
    /\ \A i \in 1..Len(p) : p[i] \in g
    /\ \A i \in 1..(Len(p) - 1) : p[i][2] = p[i + 1][1]

\* C2: whatever direct transforms are declared, when the source type has no
\* direct transform to the target but the target can be reached, the
\* transforms mod_trans_to applies form a path from source to target, and no
\* path has fewer hops.
C2_FewestHops ==
    (/\ bfs # None
     /\ bfs.to # bfs.from
     /\ ~has_direct_trans(graph, bfs.from, bfs.to)
     /\ bfs.to \in ReachableFrom(graph, {bfs.from}))
    => /\ bfs.found.err = ""
       /\ IsPath(bfs.found.path, bfs.from, bfs.to, graph)
       /\ Len(bfs.found.path) = HopsFrom(graph, {bfs.from}, bfs.to, 0)

(***************************************************************************)
(* Properties of the records, checked under SpecRec.                       *)
(***************************************************************************)
StoredKeysValid(r) == DOMAIN r.pars \subseteq classes[r.cls].keys_valid

\* C7: whatever calls were made, with keys, aliases or unknown names, every
\* stored key is a key of the type's valid-key set, on the record and on its
\* copy; and a get_val or set_prop whose name resolves to no valid key
\* raises and leaves the stored values as they were.
C7_OnlyValidKeys ==
    /\ StoredKeysValid(cur)
    /\ other # None => StoredKeysValid(other)
    /\ (/\ Len(call.hist) > 0
        /\ LastCall.op \in {"get_val", "set_prop"}
        /\ ~is_valid_key(call.before.rec.cls, LastCall.arg))
       => /\ call.err # ""
          /\ cur = call.before.rec
          /\ heap = call.before.heap

\* C7 happens: an assignment through an alias stored its key, and then a
\* name no class knows was read
C7_Witness ==
    /\ Len(call.hist) = 2
    /\ call.hist[1] = [op |-> "set_prop", arg |-> "x0", val |-> PStr("3 1")]
    /\ call.hist[2].op = "get_val"
    /\ call.hist[2].arg = "bogus"
    /\ cur.cls = "sersic"
    /\ "1" \in DOMAIN cur.pars
    /\ call.err = "AttributeError"

\* Header.mode_alias, alias by alias
ModeOfAlias ==
    [optimize |-> "0", opt |-> "0", o |-> "0", model |-> "1", mod |-> "1",
     m |-> "1", imgblock |-> "2", block |-> "2", b |-> "2", subcomps |-> "3",
     sub |-> "3", s |-> "3"]

HeaderModesStored(r) ==
    /\ "P" \in DOMAIN r.pars =>
          r.pars["P"] \in {PStr("0"), PStr("1"), PStr("2"), PStr("3")}
    /\ "O" \in DOMAIN r.pars =>
          r.pars["O"] \in {PStr("regular"), PStr("curses"), PStr("both")}

\* C8: a Header's stored P is one of '0'..'3' and its stored O one of
\* 'regular', 'curses', 'both'; set_prop of P with a mode alias stores the
\* alias's digit; set_prop of P or O with any value that is neither raises
\* and leaves every stored pair as it was.
C8_HeaderModes ==
    cur.cls = "header" =>
        /\ HeaderModesStored(cur)
        /\ other # None => HeaderModesStored(other)
        /\ (/\ Called("set_prop")
            /\ get_std_key("header", LastCall.arg) = "P"
            /\ LastCall.val.t = "str"
            /\ LastCall.val.s \in DOMAIN ModeOfAlias)
           => /\ call.err = ""
              /\ cur.pars["P"] = PStr(ModeOfAlias[LastCall.val.s])
        /\ (/\ Called("set_prop")
            /\ get_std_key("header", LastCall.arg) \in {"P", "O"}
            /\ ~(/\ LastCall.val.t = "str"
                 /\ \/ /\ get_std_key("header", LastCall.arg) = "P"
                       /\ LastCall.val.s \in
                            DOMAIN ModeOfAlias \cup {"0", "1", "2", "3"}
                    \/ /\ get_std_key("header", LastCall.arg) = "O"
                       /\ LastCall.val.s \in {"regular", "curses", "both"}))
           => /\ call.err # ""
              /\ cur = call.before.rec

\* C8 happens: P was set through its alias with a mode alias, and then O was
\* set with a value outside its set
C8_Witness ==
    /\ Len(call.hist) = 2
    /\ cur.cls = "header"
    /\ call.hist[1] = [op |-> "set_prop", arg |-> "mod", val |-> PStr("opt")]
    /\ call.hist[2] = [op |-> "set_prop", arg |-> "O", val |-> PStr("bad")]
    /\ cur.pars["P"] = PStr("0")
    /\ call.err = "Exception"

\* C9: get_val of a valid key that is not set: an optional key whose example
\* is immutable gives the default and stores nothing; an optional key whose
\* example is mutable is added to storage, alone, and what is stored is
\* returned; a required key raises and stores nothing.
C9_GetValUnset ==
    (/\ Called("get_val")
     /\ is_valid_key(call.before.rec.cls, LastCall.arg)
     /\ ~is_set_key(call.before.rec, LastCall.arg))
    => IF ~is_opt_key(cur.cls, LastCall.arg)
       THEN /\ call.err # ""
            /\ cur = call.before.rec
            /\ heap = call.before.heap
       ELSE IF is_mutable_prop(cur.cls, LastCall.arg)
            THEN /\ call.err = ""
                 /\ DOMAIN cur.pars = DOMAIN call.before.rec.pars
                                        \cup {get_std_key(cur.cls, LastCall.arg)}
                 /\ \A k \in DOMAIN call.before.rec.pars :
                       ValueAt(heap, cur, k) =
                           ValueAt(call.before.heap, call.before.rec, k)
                 /\ call.ret = cur.pars[get_std_key(cur.cls, LastCall.arg)]
            ELSE /\ call.err = ""
                 /\ get_default_val(cur.cls, LastCall.arg).err = ""
                 /\ call.ret = get_default_val(cur.cls, LastCall.arg).val
                 /\ cur = call.before.rec
                 /\ heap = call.before.heap

\* C9 happens: the background of a Sky, optional and a Parameter, was read
\* while unset and is stored now
C9_Witness ==
    /\ Called("get_val")
    /\ cur.cls = "sky"
    /\ LastCall.arg = "bkg"
    /\ "1" \notin DOMAIN call.before.rec.pars
    /\ "1" \in ParKeys(cur)
    /\ call.ret = cur.pars["1"]

\* C10: r.copy() returns a record of r's type with r's keys set to equal
\* values and sharing no Parameter with r; and a set_prop or an in-place
\* Parameter update made afterwards on one of the two changes nothing that
\* is read from the other.
C10_CopyIsIndependent ==
    /\ Called("copy") =>
          /\ call.err = ""
          /\ call.ret.cls = call.before.rec.cls
          /\ DOMAIN call.ret.pars = DOMAIN call.before.rec.pars
          /\ \A k \in DOMAIN call.ret.pars :
                ValueAt(heap, call.ret, k) =
                    ValueAt(call.before.heap, call.before.rec, k)
          /\ Refs(call.ret) \cap Refs(call.before.rec) = {}
    /\ (/\ other # None
        /\ Len(call.hist) > 0
        /\ LastCall.op \in {"set_prop", "update"})
       => \A k \in DOMAIN other.pars :
             ValueAt(heap, other, k) = ValueAt(call.before.heap, other, k)

\* the fields a value hands to a Parameter: the tokens of a string, the
\* elements of a tuple, the number itself
FieldsOf(v) ==
    CASE v.t = "str" -> Tokens(Split(v.s))
      [] v.t = "tup" -> v.xs
      [] OTHER       -> <<v>>

\* set_prop('1', 'x y sx sy') on a model with a position: x and its state go
\* to key 1, y and its state to key 2
IsXYForm(c, name, v) ==
    c # "sky" /\ name = "1" /\ v.t = "str" /\ Len(FieldsOf(v)) = 4

\* the fields of v meant for the Parameter under the key that was named
SuppliedTo(c, name, v) ==
    IF IsXYForm(c, name, v) THEN <<FieldsOf(v)[1], FieldsOf(v)[3]>>
    ELSE FieldsOf(v)

\* C11: set_prop(k, v) on a model, k a fitting parameter and v a number, a
\* string or a tuple.  When k is set, the Parameter object under k stays the
\* one it was, the fields v does not supply keep their content (none is
\* supplied when v has more than three fields), a supplied value is the one
\* stored, and no Parameter under another key changes (the combined x/y form
\* reaches key 2 as well).  When k is unset and required and the call
\* succeeds, a Parameter object that did not exist before is stored under k
\* with the value v supplies.
C11_SetPropKeepsParameter ==
    (/\ Called("set_prop")
     /\ cur.cls # "header"
     /\ is_modvar_key(cur.cls, LastCall.arg)
     /\ LastCall.val.t \in {"int", "float", "str", "tup"})
    => LET k == get_std_key(cur.cls, LastCall.arg)
           b == call.before
           f == SuppliedTo(cur.cls, LastCall.arg, LastCall.val)
           n == Len(f)
           also == IF IsXYForm(cur.cls, LastCall.arg, LastCall.val)
                   THEN {"2"} ELSE {}
       IN  IF k \in DOMAIN b.rec.pars
           THEN /\ k \in DOMAIN cur.pars
                /\ cur.pars[k] = b.rec.pars[k]
                /\ DOMAIN b.rec.pars \subseteq DOMAIN cur.pars
                /\ DOMAIN cur.pars \subseteq DOMAIN b.rec.pars \cup also
                /\ (n < 3 \/ n > 3) =>
                      ParAt(heap, cur, k).uncert = ParAt(b.heap, b.rec, k).uncert
                /\ (n < 2 \/ n > 3) =>
                      ParAt(heap, cur, k).state = ParAt(b.heap, b.rec, k).state
                /\ (n < 1 \/ n > 3) =>
                      ParAt(heap, cur, k).val = ParAt(b.heap, b.rec, k).val
                /\ (call.err = "" /\ n \in 1..3) =>
                      ParAt(heap, cur, k).val = ToFloat(f[1]).q
                /\ \A j \in ParKeys(b.rec) \ ({k} \cup also) :
                      /\ cur.pars[j] = b.rec.pars[j]
                      /\ ParAt(heap, cur, j) = ParAt(b.heap, b.rec, j)
           ELSE (~is_opt_key(cur.cls, k) /\ call.err = "")
                => /\ k \in ParKeys(cur)
                   /\ cur.pars[k].ref > Len(b.heap)
                   /\ n \in 1..3 => ParAt(heap, cur, k).val = ToFloat(f[1]).q
                   /\ \A j \in ParKeys(b.rec) :
                         /\ cur.pars[j] = b.rec.pars[j]
                         /\ ParAt(heap, cur, j) = ParAt(b.heap, b.rec, j)

\* C11 happens: the magnitude of a new Sersic was assigned while unset, which
\* stored a new Parameter, and assigned again with a number alone: the
\* object is the same and its state is the one of the first assignment
C11_Witness ==
    /\ Len(call.hist) = 2
    /\ orig.rec = NewRecord("sersic")
    /\ call.hist[1] = [op |-> "set_prop", arg |-> "3", val |-> PStr("3 1")]
    /\ call.hist[2] = [op |-> "set_prop", arg |-> "3", val |-> PInt(5)]
    /\ call.err = ""
    /\ "3" \in ParKeys(call.before.rec)
    /\ call.before.rec.pars["3"].ref > Len(orig.heap)
    /\ cur.pars["3"] = call.before.rec.pars["3"]
    /\ ParAt(heap, cur, "3") = [val |-> <<5, 1>>, state |-> 1, uncert |-> <<>>]

(***************************************************************************)
(* Properties of a Parameter, checked under SpecPar.                       *)
(***************************************************************************)
\* the state inputs the format knows: 0, 1, their digit strings, and the
\* two names
StateInputKnown(v) ==
    v \in {PInt(0), PInt(1), PStr("0"), PStr("1"), PStr("free"), PStr("freeze")}

\* C12: once constructed, and after any update, set_state, free, freeze or
\* attribute assignment, the state of a Parameter is Free (1) or Fixed (0);
\* and a set_state with an input other than 0, 1, '0', '1', 'free' and
\* 'freeze' raises.
C12_StateIsFreeOrFixed ==
    /\ cur # None => heap[cur.ref].state \in {FREE, FREEZE}
    /\ (Called("set_state") /\ ~StateInputKnown(LastCall.arg))
          => call.err # ""

\* the number of fields an argument list hands over: separate arguments, the
\* elements of one sequence, or the tokens of one string
FieldCount(args) ==
    IF Len(args) # 1 THEN Len(args)
    ELSE CASE args[1].t = "str" -> Len(Split(args[1].s))
           [] args[1].t = "tup" -> Len(args[1].xs)
           [] args[1].t = "par" -> 3
           [] OTHER             -> 1

\* C13: Parameter(...) and update(...) take 1, 2 or 3 fields, as separate
\* arguments, as one sequence or as the tokens of one string, and raise for
\* any other number of fields; so a Parameter that was constructed has a
\* value.
C13_OneToThreeFields ==
    /\ (/\ Len(call.hist) > 0
        /\ LastCall.op \in {"new", "update"}
        /\ FieldCount(LastCall.arg) \notin 1..3)
       => call.err # ""
    /\ cur # None => heap[cur.ref].val # None

\* the number an operand of += and *= stands for
OperandValue(h, v) ==
    CASE v.t = "par" -> h[v.ref].val
      [] OTHER       -> ToFloat(v).q

\* the operands C14 speaks of: a number, a string that reads as one number,
\* a Parameter (with a value)
OperandAccepted(h, v) ==
    CASE v.t \in {"int", "float"} -> TRUE
      [] v.t = "str"              -> ParseFloat(v.s).err = ""
      [] v.t = "par"              -> h[v.ref].val # None
      [] OTHER                    -> FALSE

\* C14: p += v and p *= v, for p with a value and v a number, a numeric
\* string or a Parameter, raise nothing, set p.val to the sum, respectively
\* the product, of p.val and the number v stands for, and leave the state
\* and the uncertainty of p, and p's identity, as they were.
C14_InPlaceArithmetic ==
    (/\ Len(call.hist) > 0
     /\ LastCall.op \in {"iadd", "imul"}
     /\ call.before.heap[cur.ref].val # None
     /\ OperandAccepted(call.before.heap, LastCall.arg))
    => /\ call.err = ""
       /\ call.ret = cur
       /\ heap[cur.ref].state = call.before.heap[cur.ref].state
       /\ heap[cur.ref].uncert = call.before.heap[cur.ref].uncert
       /\ heap[cur.ref].val =
             IF LastCall.op = "iadd"
             THEN QAdd(call.before.heap[cur.ref].val,
                       OperandValue(call.before.heap, LastCall.arg))
             ELSE QMul(call.before.heap[cur.ref].val,
                       OperandValue(call.before.heap, LastCall.arg))

(***************************************************************************)
(* Properties of the constraint rules, checked under SpecCons.             *)
(***************************************************************************)
\* C15: a rule of one of the six types, written as a line and the line read
\* back, is the rule again: the same components, parameter, type and range.
C15_RuleRoundTrip ==
    (other # None /\ other.rule.type_cons \in types_cons_valid)
    => /\ other.back.err = ""
       /\ other.back.rule = other.rule

\* a line that is neither blank nor a comment and matches no pattern
NoGrammar(line) ==
    /\ line # <<>>
    /\ line[1] # <<Char("#")>>
    /\ \A t \in types_cons_valid : ~ptn_match(t, line)

\* C16: add_cons with a line that is neither blank nor a comment and matches
\* none of the six patterns raises and leaves the collection as it was; and
\* every rule of a collection has one of the six types and at least one
\* component.
C16_NoGrammarFails ==
    /\ (/\ Called("add_cons")
        /\ Len(LastCall.arg) = 1
        /\ NoGrammar(LastCall.arg[1]))
       => /\ call.err # ""
          /\ cur = call.before.rec
    /\ \A i \in 1..Len(cur.rules_cons) :
          /\ cur.rules_cons[i].type_cons \in types_cons_valid
          /\ Len(cur.rules_cons[i].comps) >= 1

\* a parameter token that is a number or a name or alias of the vocabulary
ParRecognised(p) ==
    IsDigit(p) \/ p \in valid_par_names \/ p \in {"ba", "x0", "y0"}

\* C17: the parameter of every rule that was constructed is a digit string
\* or a name of the vocabulary, never an alias; and a construction whose
\* parameter token is neither a number nor a name or alias raises.
C17_ParIsCanonical ==
    /\ \A i \in 1..Len(cur.rules_cons) :
          IsDigit(cur.rules_cons[i].par)
              \/ cur.rules_cons[i].par \in valid_par_names
    /\ (/\ Called("add_cons")
        /\ Len(LastCall.arg) = 1
        /\ Len(LastCall.arg[1]) >= 2
        /\ ~ParRecognised(LastCall.arg[1][2]))
       => call.err # ""
    /\ (/\ Called("add_cons")
        /\ Len(LastCall.arg) = 4
        /\ LastCall.arg[2].t = "str"
        /\ ~ParRecognised(LastCall.arg[2].s))
       => call.err # ""
\* the lines of file f that open a component, and the component a line
\* belongs to: the number of opening lines up to it
OpenLines(f) == {i \in 1..Len(f) : f[i].key = "0"}

CompOfLine(f, i) == Cardinality({j \in OpenLines(f) : j <= i})

HeaderLinesOf(f) == {i \in 1..Len(f) : is_valid_key("header", f[i].key)}

\* the keys line l sets on a component of class c
KeysOfLine(c, l) ==
    IF ~is_valid_key(c, l.key) THEN {}
    ELSE IF IsXYForm(c, get_std_key(c, l.key), l.val) THEN {"1", "2"}
    ELSE {get_std_key(c, l.key)}

\* the keys the lines of file f set on its n-th component, of class c
KeysOfBlock(f, n, c) ==
    UNION {KeysOfLine(c, f[i]) :
              i \in {j \in 1..Len(f) : /\ CompOfLine(f, j) = n
                                       /\ j \notin OpenLines(f)
                                       /\ j \notin HeaderLinesOf(f)}}

\* the document holds what the lines of f say, each line at its place
LoadedAsRouted(f, d) ==
    /\ Len(d.comps) = Cardinality(OpenLines(f))
    /\ \A i \in OpenLines(f) :
          d.comps[CompOfLine(f, i)].cls = Lower(f[i].val.s)
    /\ DOMAIN d.header.pars =
          {get_std_key("header", f[i].key) : i \in HeaderLinesOf(f)}
    /\ \A n \in 1..Len(d.comps) :
          DOMAIN d.comps[n].pars = KeysOfBlock(f, n, d.comps[n].cls)

\* C18: load_file of any sequence of recognised parameter lines completes;
\* the document then has one component per line with key '0', in file order
\* and of the named type, the header holds the keys of the lines whose key
\* the Header declares, and each component holds the keys of the other lines
\* that follow its opening line and that its type declares.
C18_LoadRoutesLines ==
    Called("load_file")
    => /\ call.err = ""
       /\ LoadedAsRouted(orig, cur)

\* the last three calls wrote the document, loaded the written text and
\* wrote again, the first writing having given a text
WrittenAndRead ==
    /\ Len(call.hist) >= 3
    /\ call.hist[Len(call.hist) - 2].op = "str"
    /\ call.hist[Len(call.hist) - 2].err = ""
    /\ call.hist[Len(call.hist) - 1].op = "load_text"
    /\ call.hist[Len(call.hist)].op = "str"

\* C19: a document that has all its required keys set is written, the text
\* is loaded and the loaded document is written again: the load and the
\* second writing succeed, and the component blocks of the second text are
\* those of the first, in order, key by key and value by value as formatted.
C19_WriteLoadWrite ==
    WrittenAndRead
    => /\ call.hist[Len(call.hist) - 1].err = ""
       /\ call.err = ""
       /\ other[Len(other)].blocks = other[Len(other) - 1].blocks

\* the components before the last call, and the place, counted from 1, of
\* the one a valid index names
CompsBefore == call.before.rec.comps

IndexValid(index) == index \in (-Len(CompsBefore))..(Len(CompsBefore) - 1)

PlaceOf(index) == IF index >= 0 THEN index + 1
                  ELSE Len(CompsBefore) + index + 1

\* record c is a copy of record r: the same type, the same keys, the same
\* content under each, and no Parameter object in common
IsCopyOf(h, c, r) ==
    /\ c.cls = r.cls
    /\ DOMAIN c.pars = DOMAIN r.pars
    /\ \A k \in DOMAIN r.pars : ValueAt(h, c, k) = ValueAt(h, r, k)
    /\ Refs(c) \cap Refs(r) = {}

\* dup_comp(index) left one component more, the new one right after the one
\* the index names, the others where they were relative to each other
DuplicatedAt(index) ==
    /\ call.err = ""
    /\ Len(cur.comps) = Len(CompsBefore) + 1
    /\ \A i \in 1..PlaceOf(index) : cur.comps[i] = CompsBefore[i]
    /\ \A i \in (PlaceOf(index) + 1)..Len(CompsBefore) :
          cur.comps[i + 1] = CompsBefore[i]
    /\ IsCopyOf(heap, cur.comps[PlaceOf(index) + 1],
                CompsBefore[PlaceOf(index)])

\* C20: dup_comp(i) with i a valid index of the component list, positive or
\* negative, and no destination given: the list has one component more, a
\* copy of the i-th component stands immediately after it, the other
\* components keep their relative order, and the copy shares no Parameter
\* object with the original.
C20_DupCompAfterOriginal ==
    (Called("dup_comp") /\ IndexValid(LastCall.arg))
    => DuplicatedAt(LastCall.arg)

\* the places of the components free(comps) or freeze(comps) selects
Selected(comps) ==
    IF comps = None THEN 1..Len(CompsBefore)
    ELSE {PlaceOf(comps[i]) : i \in 1..Len(comps)}

\* every model variable of record r is stored and has state st
AllModvarsIn(h, r, st) ==
    \A i \in 1..Len(get_all_modvars(r.cls)) :
        /\ get_all_modvars(r.cls)[i] \in DOMAIN r.pars
        /\ ParAt(h, r, get_all_modvars(r.cls)[i]).state = st

\* value and uncertainty of key k of record r, read as get_val reads them:
\* those of the default while the key is unset
ValUncert(h, r, k) ==
    IF k \in DOMAIN r.pars
    THEN <<ParAt(h, r, k).val, ParAt(h, r, k).uncert>>
    ELSE <<h[get_default_val(r.cls, k).val.ref].val,
           h[get_default_val(r.cls, k).val.ref].uncert>>

\* the record a is the record b with, at most, other states
SameButStates(h, a, hb, b) ==
    /\ a.cls = b.cls
    /\ DOMAIN b.pars \subseteq DOMAIN a.pars
    /\ \A k \in DOMAIN b.pars : b.pars[k] = a.pars[k]
    /\ \A k \in DOMAIN a.pars :
          IF a.pars[k].t = "par" THEN ValUncert(h, a, k) = ValUncert(hb, b, k)
          ELSE k \in DOMAIN b.pars

\* the record a and all it holds is as b was
SameRecord(h, a, hb, b) ==
    /\ a = b
    /\ \A k \in DOMAIN b.pars : ValueAt(h, a, k) = ValueAt(hb, b, k)

\* C21: when free(comps) or freeze(comps) completes, every model variable
\* of every selected component (of all when comps is None) is stored with
\* state Free, respectively Fixed; no model variable of any component has
\* another value or uncertainty than before; the header and the components
\* that are not selected are as they were.
C21_BulkStateOnly ==
    ((Called("free") \/ Called("freeze")) /\ call.err = "")
    => /\ Len(cur.comps) = Len(CompsBefore)
       /\ \A n \in Selected(LastCall.arg) :
             /\ AllModvarsIn(heap, cur.comps[n],
                             IF LastCall.op = "free" THEN FREE ELSE FREEZE)
             /\ SameButStates(heap, cur.comps[n],
                              call.before.heap, CompsBefore[n])
       /\ \A n \in (1..Len(CompsBefore)) \ Selected(LastCall.arg) :
             SameRecord(heap, cur.comps[n], call.before.heap, CompsBefore[n])
       /\ SameRecord(heap, cur.header, call.before.heap,
                     call.before.rec.header)

\* a document of a sersic with fixed variables and a sky: free of the first
\* component alone has completed, and the sky is untouched
C21_Witness ==
    /\ Called("free")
    /\ call.err = ""
    /\ LastCall.arg = <<0>>
    /\ Len(cur.comps) = 2
    /\ cur.comps[1].cls = "sersic"
    /\ cur.comps[2].cls = "sky"
    /\ ParAt(call.before.heap, CompsBefore[1], "3").state = FREEZE
    /\ ParAt(heap, cur.comps[1], "3").state = FREE
    /\ ParAt(heap, cur.comps[1], "3").uncert = Q(1, 2)

\* what mod_trans_to(mod) makes of the component the last call named, in
\* the state the call started from
TransOfOld ==
    mod_trans_to(call.before.heap, CompsBefore[PlaceOf(LastCall.arg.index)],
                 LastCall.arg.mod, <<>>, graph)

\* record a holds what record b holds: the same type, keys and content
SameContent(h, a, hb, b) ==
    /\ a.cls = b.cls
    /\ DOMAIN a.pars = DOMAIN b.pars
    /\ \A k \in DOMAIN b.pars : ValueAt(h, a, k) = ValueAt(hb, b, k)

\* the last call was trans_comp_to(i, T) with i a valid index, T another
\* type than that of component i and reachable from it, and mod_trans_to(T)
\* succeeds on the component
TransCompAsked ==
    /\ Called("trans_comp_to")
    /\ IndexValid(LastCall.arg.index)
    /\ LastCall.arg.mod # CompsBefore[PlaceOf(LastCall.arg.index)].cls
    /\ LastCall.arg.mod \in
          ReachableFrom(graph, {CompsBefore[PlaceOf(LastCall.arg.index)].cls})
    /\ TransOfOld.err = ""

\* C22: trans_comp_to(i, T) on a document whose component i has a type that
\* T is reachable from succeeds; the document has as many components as
\* before and each other component is as it was; with inplace=True the
\* component i is then a model of type T equal to what mod_trans_to(T) makes
\* of the old component, with inplace=False that model is returned and the
\* component i is as it was.
C22_TransCompInPlace ==
    TransCompAsked
    => /\ call.err = ""
       /\ Len(cur.comps) = Len(CompsBefore)
       /\ \A n \in (1..Len(CompsBefore)) \ {PlaceOf(LastCall.arg.index)} :
             SameRecord(heap, cur.comps[n], call.before.heap, CompsBefore[n])
       /\ IF LastCall.arg.inplace
          THEN SameContent(heap, cur.comps[PlaceOf(LastCall.arg.index)],
                           TransOfOld.heap, TransOfOld.ret)
          ELSE /\ SameContent(heap, call.ret, TransOfOld.heap, TransOfOld.ret)
               /\ SameRecord(heap, cur.comps[PlaceOf(LastCall.arg.index)],
                             call.before.heap,
                             CompsBefore[PlaceOf(LastCall.arg.index)])

\* the place a file parameter's value names: the working directory joined
\* with the value
PlaceNamed(d, h, par) == path_join(d.workdir, ValueAt(h, d.header, par).segs)

\* the value get_val reads from the optional header key k of document d
HeaderVal(d, h, k) ==
    IF k \in DOMAIN d.header.pars THEN ValueAt(h, d.header, k)
    ELSE get_default_val("header", k).val

\* C23: chdir_to(dest) makes dest the working directory.  With
\* keep_header=True no header value changes.  With keep_header=False each
\* file parameter (input, sigma, psf, mask, constraints) that is 'none'
\* stays 'none', and each other one is rewritten so that the working
\* directory joined with its value names the same place after the call as
\* before; the output parameter is left alone when skip_output is true.
C23_ChdirKeepsPlaces ==
    (Called("chdir_to") /\ is_str_type(LastCall.arg.dest))
    => /\ call.err = ""
       /\ cur.workdir = LastCall.arg.dest.segs
       /\ LastCall.arg.keep_header => cur.header = call.before.rec.header
       /\ ~LastCall.arg.keep_header =>
             \A k \in {"A", "C", "D", "F", "G"} :
                IF HeaderVal(call.before.rec, call.before.heap, k) = PStr("none")
                THEN HeaderVal(cur, heap, k) = PStr("none")
                ELSE path_relpath(PlaceNamed(cur, heap, k), <<>>)
                     = path_relpath(PlaceNamed(call.before.rec,
                                               call.before.heap, k), <<>>)

\* C24: rungf returns a number N only if the galfit process was started,
\* exited with code 0 and left a galfit.N behind, N being one more than the
\* number of the input file the process was given; whatever was named
\* galfit.N before the call is gone when the process starts; with a change
\* callback the input of the process has a number above init that named no
\* file before the call, without one it is init itself; in every other case
\* rungf fails.
ProcessInput == other.input

ProcessSucceeded ==
    /\ other # None
    /\ ~LastCall.arg.p.timeout
    /\ LastCall.arg.p.ecode = 0
    /\ exists(cur, ProcessInput + 1)

C24_RunResult ==
    Called("rungf") =>
        /\ (call.err = "") <=> ProcessSucceeded
        /\ call.err = "" => call.ret = PInt(ProcessInput + 1)
        /\ call.err # "" => call.ret = PNone
        /\ other # None =>
            /\ ~exists(other.fs, ProcessInput + 1)
            /\ isfile(other.fs, ProcessInput)
            /\ IF LastCall.arg.change
               THEN /\ ProcessInput > LastCall.arg.init
                    /\ ~isfile(call.before.rec, ProcessInput)
               ELSE ProcessInput = LastCall.arg.init

\* rungf with a callback returned a number that named a file before the call
C24_Witness ==
    /\ Called("rungf")
    /\ call.err = ""
    /\ LastCall.arg.change
    /\ isfile(call.before.rec, call.ret.n)


\* C25: an Expdisk with every fitting parameter set, each Free or Fixed, and
\* rs and ba above 0, taken by to_edgedisk and the result by to_expdisk, gives
\* an Expdisk whose position, magnitude, rs, ba and pa have the values and
\* the states they had.
FreeOrFixed(h, r) ==
    \A k \in DOMAIN r.pars : ParAt(h, r, k).state \in {FREE, FREEZE}

C25_DiskRoundTrip ==
    (/\ orig.rec.cls = "expdisk"
     /\ AllModvarsSet(orig.rec)
     /\ Valued(orig.heap, orig.rec)
     /\ FreeOrFixed(orig.heap, orig.rec)
     /\ ParAt(orig.heap, orig.rec, "4").val[1] > 0
     /\ ParAt(orig.heap, orig.rec, "9").val[1] > 0
     /\ Len(call.hist) >= 1
     /\ call.hist[1] = [op |-> "to", arg |-> "edgedisk", kw |-> <<>>])
    => /\ Len(call.hist) = 1 => call.err = ""
       /\ (/\ Len(call.hist) = 2
           /\ call.hist[2] = [op |-> "to", arg |-> "expdisk", kw |-> <<>>])
          => /\ call.err = ""
             /\ cur.cls = "expdisk"
             /\ \A k \in {"1", "2", "3", "4", "9", "10"} :
                   /\ k \in ParKeys(cur)
                   /\ ParAt(heap, cur, k).val = ParAt(orig.heap, orig.rec, k).val
                   /\ ParAt(heap, cur, k).state = ParAt(orig.heap, orig.rec, k).state


\* C26: get_logs_by_filename, given a result or an init file name, selects
\* among the logs with these file names by index: None and 'all' give them
\* all in their order, or the log itself when there is one and strip is
\* true; 'last' and 'newest' give the last of them; 'first' and 'oldest' the
\* first.
Matching(result, init) ==
    {i \in 1..Len(cur) :
        /\ result.t # "none" => cur[i].result_file = result.s
        /\ init.t # "none" => cur[i].init_file = init.s}

Ascending(places) ==
    \A i \in 1..Len(places) : \A j \in 1..Len(places) :
        i < j => places[i] < places[j]

AllOf(M, strip) ==
    /\ call.err = ""
    /\ IF strip /\ Cardinality(M) = 1
       THEN \E i \in M : call.ret = OneLog(i)
       ELSE /\ call.ret.t = "list"
            /\ Ascending(call.ret.places)
            /\ {call.ret.places[i] : i \in 1..Len(call.ret.places)} = M

LastOf(M) ==
    M # {} => /\ call.err = ""
              /\ \E i \in M : call.ret = OneLog(i) /\ \A j \in M : j <= i

FirstOf(M) ==
    M # {} => /\ call.err = ""
              /\ \E i \in M : call.ret = OneLog(i) /\ \A j \in M : i <= j

C26_IndexSelects ==
    (/\ Called("get_logs_by_filename")
     /\ LastCall.arg.result.t # "none" \/ LastCall.arg.init.t # "none")
    => /\ LastCall.arg.index \in {PNone, PStr("all")}
            => AllOf(Matching(LastCall.arg.result, LastCall.arg.init),
                     LastCall.arg.strip)
       /\ LastCall.arg.index \in {PStr("last"), PStr("newest")}
            => LastOf(Matching(LastCall.arg.result, LastCall.arg.init))
       /\ LastCall.arg.index \in {PStr("first"), PStr("oldest")}
            => FirstOf(Matching(LastCall.arg.result, LastCall.arg.init))

\* C30: whenever the parameter lines have just been parsed, by
\* parse_pars_lines or by load_file with parse_pars, however often they were
\* parsed before, each log holds one parsed component for each pair of its
\* raw parameter lines, in the order of the lines, and each component has as
\* many values as uncertainties and flags.
JustParsed ==
    /\ call.err = ""
    /\ \/ Called("parse_pars_lines")
       \/ Called("load_file") /\ LastCall.arg.parse_pars

ParsedOnce(log) ==
    /\ 2 * Len(log.mods_pars) = Len(log.lines_pars)
    /\ \A j \in 1..Len(log.mods_pars) :
          /\ 2 * j <= Len(log.lines_pars)
             => log.mods_pars[j] =
                  LogMod(log.lines_pars[2 * j - 1], log.lines_pars[2 * j]).mod
          /\ Len(log.mods_pars[j].vals) = Len(log.mods_pars[j].uncerts)
          /\ Len(log.mods_pars[j].vals) = Len(log.mods_pars[j].flags)

C30_ParseIdempotent ==
    JustParsed => \A i \in 1..Len(cur) : ParsedOnce(cur[i])


\* C27: once mod_trans_to or a direct to_<name> method has returned or
\* raised, the source has the stored keys it had, every Parameter it stores
\* has the value, state and uncertainty it had, and a model returned shares
\* no Parameter with the source.
SourceKept ==
    /\ DOMAIN other.pars = DOMAIN call.before.rec.pars
    /\ \A k \in DOMAIN other.pars :
          ValueAt(heap, other, k) =
              ValueAt(call.before.heap, call.before.rec, k)

C27_TransformKeepsSource ==
    (Called("mod_trans_to") \/ Called("to"))
    => /\ SourceKept
       /\ call.err = "" => Refs(cur) \cap Refs(other) = {}


\* C27 happens: Expdisk.to_edgedisk returned an Edgedisk whose scale length
\* has the value of the source's, the source holding its own still
C27_Witness ==
    /\ Called("to")
    /\ LastCall.arg = "edgedisk"
    /\ call.err = ""
    /\ other.cls = "expdisk"
    /\ "5" \in ParKeys(cur)
    /\ "4" \in ParKeys(other)
    /\ ParAt(heap, cur, "5").val = ParAt(heap, other, "4").val
    /\ cur.pars["5"] # other.pars["4"]


\* C28: on every graph of declared direct transforms, a path search that has
\* begun comes to its end: the work list is empty or the target is found.
SearchEnded == bfs # None /\ ~SearchRunning(bfs.run)

C28_SearchTerminates == (bfs # None) ~> SearchEnded

\* C28 happens: a search ended with the work list empty and the target not
\* found, having visited both nodes of a cycle and a node that two visited
\* nodes lead to
C28_Witness ==
    /\ SearchEnded
    /\ bfs.run.tovisit = <<>>
    /\ ~bfs.run.found
    /\ \E a \in bfs.run.visited : \E b \in bfs.run.visited :
          /\ <<a, b>> \in graph
          /\ <<b, a>> \in graph
    /\ \E a \in bfs.run.visited : \E b \in bfs.run.visited :
       \E c \in bfs.run.visited :
          /\ a # b
          /\ <<a, c>> \in graph
          /\ <<b, c>> \in graph


\* C29: when set_prop on a key of a fitting parameter, the combined form on
\* key '1' among them, or update of a stored Parameter raises, every
\* Parameter of the model has the value, state and uncertainty it had.
SetFailed ==
    /\ call.err # ""
    /\ \/ Called("update")
       \/ /\ Called("set_prop")
          /\ is_valid_key(call.before.rec.cls, LastCall.arg)
          /\ is_modvar_key(call.before.rec.cls,
                           get_std_key(call.before.rec.cls, LastCall.arg))

C29_SetIsAtomic ==
    SetFailed =>
        \A k \in ParKeys(call.before.rec) :
            /\ k \in ParKeys(cur)
            /\ ParAt(heap, cur, k) = ParAt(call.before.heap, call.before.rec, k)


====
